---- MODULE Spec2Model ----
(***************************************************************************)
(* Email-Productivity-Agent: the LLM orchestration layer, the processing   *)
(* pipeline (backend/email_processor.py), the agent                        *)
(* (backend/agent_logic.py), the store (backend/database.py) and the       *)
(* provider clients (backend/llm_service.py, ollama_service.py).           *)
(*                                                                         *)
(* Text is a sequence of one-character strings.  Python's None is the      *)
(* value None below, which no text equals (its element is not a single     *)
(* character).                                                             *)
(***************************************************************************)
EXTENDS Integers, Sequences, FiniteSets, TLC

None == <<"None">>

\* Python truthiness of an Optional[str] / list: None, "" and [] are falsy.
Truthy(x) == x # None /\ x # <<>>

(***************************************************************************)
(* str helpers: lower(), strip(), find(), rfind(), `in`.                   *)
(***************************************************************************)
UpperChars == <<"A","B","C","D","E","F","G","H","I","J","K","L","M",
                "N","O","P","Q","R","S","T","U","V","W","X","Y","Z">>
LowerChars == <<"a","b","c","d","e","f","g","h","i","j","k","l","m",
                "n","o","p","q","r","s","t","u","v","w","x","y","z">>

Whitespace == {" ", "\n", "\t", "\r"}

lowerChar(c) ==
  IF \E i \in DOMAIN UpperChars : UpperChars[i] = c
  THEN LowerChars[CHOOSE i \in DOMAIN UpperChars : UpperChars[i] = c]
  ELSE c

lower(s) == [i \in DOMAIN s |-> lowerChar(s[i])]

\* str.strip(): drop the leading and the trailing whitespace.
strip(s) ==
  LET nonws == {i \in DOMAIN s : s[i] \notin Whitespace}
  IN  IF nonws = {} THEN <<>>
      ELSE LET a == CHOOSE i \in nonws : \A j \in nonws : i <= j
               b == CHOOSE i \in nonws : \A j \in nonws : j <= i
           IN  SubSeq(s, a, b)

\* `sub in s` for str.
contains(sub, s) ==
  \E i \in 0..(Len(s) - Len(sub)) : SubSeq(s, i + 1, i + Len(sub)) = sub

\* s.find(c) and s.rfind(c) for a one-character c: 0-based index, -1 if absent.
find(s, c) ==
  IF \E i \in DOMAIN s : s[i] = c
  THEN (CHOOSE i \in DOMAIN s : s[i] = c /\ \A j \in DOMAIN s : s[j] = c => i <= j) - 1
  ELSE -1

rfind(s, c) ==
  IF \E i \in DOMAIN s : s[i] = c
  THEN (CHOOSE i \in DOMAIN s : s[i] = c /\ \A j \in DOMAIN s : s[j] = c => j <= i) - 1
  ELSE -1

\* Python slice s[a:b] for 0 <= a (b may be <= a: the empty string).
slice(s, a, b) == SubSeq(s, a + 1, b)

(***************************************************************************)
(* Response interpreters (llm_service.py / ollama_service.py).             *)
(***************************************************************************)
Important  == <<"I","m","p","o","r","t","a","n","t">>
Newsletter == <<"N","e","w","s","l","e","t","t","e","r">>
Spam       == <<"S","p","a","m">>
ToDo       == <<"T","o","-","D","o">>

valid_categories == <<Important, Newsletter, Spam, ToDo>>

\* A loop that keeps the last of valid_categories whose name occurs.
match_category_last(category, hits) ==
  IF hits # {}
  THEN valid_categories[CHOOSE i \in hits : \A j \in hits : i >= j]
  ELSE category

\* The first of valid_categories whose name occurs in category, else category.
match_category(category, hits) ==
  IF hits # {}
  THEN valid_categories[CHOOSE i \in hits : \A j \in hits : i <= j]
  ELSE category

\* A comparison that forgets to lower-case the two sides.
first_category_case_sensitive(category, lowered) ==
  match_category(category,
                 {i \in DOMAIN valid_categories : contains(valid_categories[i], category)})

first_category(category, lowered) ==
  match_category(category,
                 {i \in DOMAIN valid_categories : contains(lower(valid_categories[i]), lowered)})

\* An interpreter that treats a blank response as no response.
interpret_category_blank_none(response) ==
  IF Truthy(response) /\ strip(response) # <<>>
  THEN first_category(strip(response), lower(strip(response)))
  ELSE None

\* The tail of categorize_email: response is _call_llm's result (text or None).
interpret_category(response) ==
  IF Truthy(response)
  THEN first_category(strip(response), lower(strip(response)))
  ELSE None

(***************************************************************************)
(* json.loads / json.dumps on the JSON subset the model's texts use:       *)
(* arrays, objects, strings without escapes, integers, true/false/null.    *)
(* A parsed value is [t |-> tag, v |-> payload]: list -> sequence of       *)
(* values, dict -> sequence of <<key, value>> in insertion order, str ->   *)
(* text, int -> integer, bool/null -> the literal's text.                  *)
(***************************************************************************)
JsonWs == {" ", "\n", "\t", "\r"}
Digits == <<"0","1","2","3","4","5","6","7","8","9">>

isDigit(c) == \E i \in DOMAIN Digits : Digits[i] = c
digitVal(c) == (CHOOSE i \in DOMAIN Digits : Digits[i] = c) - 1

JList(v) == [t |-> "list", v |-> v]
JDict(v) == [t |-> "dict", v |-> v]
JStr(v)  == [t |-> "str",  v |-> v]
JInt(v)  == [t |-> "int",  v |-> v]
JLit(v)  == [t |-> "lit",  v |-> v]

JFail == [ok |-> FALSE, val |-> JLit(<<>>), pos |-> 0]
JOk(val, pos) == [ok |-> TRUE, val |-> val, pos |-> pos]

RECURSIVE skipWs(_, _)
skipWs(s, p) == IF p <= Len(s) /\ s[p] \in JsonWs THEN skipWs(s, p + 1) ELSE p

startsWith(s, p, w) == p + Len(w) - 1 <= Len(s) /\ SubSeq(s, p, p + Len(w) - 1) = w

\* A string body from position p (just after the opening quote) to the closing
\* quote; a raw control character inside the string is a decode error.
RECURSIVE scanString(_, _, _)
scanString(s, p, acc) ==
  IF p > Len(s) THEN JFail
  ELSE IF s[p] = "\"" THEN JOk(JStr(acc), p + 1)
  ELSE IF s[p] \in {"\n", "\t", "\r"} THEN JFail
  ELSE scanString(s, p + 1, Append(acc, s[p]))

RECURSIVE scanDigits(_, _, _)
scanDigits(s, p, n) ==
  IF p <= Len(s) /\ isDigit(s[p]) THEN scanDigits(s, p + 1, n * 10 + digitVal(s[p]))
  ELSE [n |-> n, pos |-> p]

\* -?(0|[1-9][0-9]*)
numberFrom(s, q, neg) ==
  IF q > Len(s) \/ ~isDigit(s[q]) THEN JFail
  ELSE IF s[q] = "0" THEN JOk(JInt(0), q + 1)
  ELSE JOk(JInt(IF neg THEN 0 - scanDigits(s, q, 0).n ELSE scanDigits(s, q, 0).n),
           scanDigits(s, q, 0).pos)

scanNumber(s, p) ==
  IF p <= Len(s) /\ s[p] = "-" THEN numberFrom(s, p + 1, TRUE) ELSE numberFrom(s, p, FALSE)

\* dict[key] = val: a repeated key keeps its first position and takes the new value.
dictSet(pairs, key, val) ==
  IF \E i \in DOMAIN pairs : pairs[i][1] = key
  THEN [i \in DOMAIN pairs |-> IF pairs[i][1] = key THEN <<key, val>> ELSE pairs[i]]
  ELSE Append(pairs, <<key, val>>)

RECURSIVE scanValue(_, _)
RECURSIVE scanElems(_, _, _)
RECURSIVE elemsAfter(_, _, _)
RECURSIVE elemsNext(_, _, _)
RECURSIVE scanMembers(_, _, _)
RECURSIVE memberColon(_, _, _)
RECURSIVE memberValue(_, _, _, _)
RECURSIVE membersNext(_, _, _)

arrayFrom(s, q) ==
  IF q <= Len(s) /\ s[q] = "]" THEN JOk(JList(<<>>), q + 1) ELSE scanElems(s, q, <<>>)

objectFrom(s, q) ==
  IF q <= Len(s) /\ s[q] = "}" THEN JOk(JDict(<<>>), q + 1) ELSE scanMembers(s, q, <<>>)

\* One value starting exactly at p (no leading whitespace).
scanValue(s, p) ==
  IF p > Len(s) THEN JFail
  ELSE IF s[p] = "\"" THEN scanString(s, p + 1, <<>>)
  ELSE IF s[p] = "[" THEN arrayFrom(s, skipWs(s, p + 1))
  ELSE IF s[p] = "{" THEN objectFrom(s, skipWs(s, p + 1))
  ELSE IF startsWith(s, p, <<"n","u","l","l">>) THEN JOk(JLit(<<"n","u","l","l">>), p + 4)
  ELSE IF startsWith(s, p, <<"t","r","u","e">>) THEN JOk(JLit(<<"t","r","u","e">>), p + 4)
  ELSE IF startsWith(s, p, <<"f","a","l","s","e">>) THEN JOk(JLit(<<"f","a","l","s","e">>), p + 5)
  ELSE scanNumber(s, p)

\* Array elements from p (whitespace already skipped), up to the closing bracket.
scanElems(s, p, acc) == elemsAfter(s, acc, scanValue(s, p))

\* e is the element just scanned.
elemsAfter(s, acc, e) ==
  IF ~e.ok THEN JFail ELSE elemsNext(s, Append(acc, e.val), skipWs(s, e.pos))

\* q is the position of the delimiter after the element.
elemsNext(s, acc, q) ==
  IF q > Len(s) THEN JFail
  ELSE IF s[q] = "]" THEN JOk(JList(acc), q + 1)
  ELSE IF s[q] = "," THEN scanElems(s, skipWs(s, q + 1), acc)
  ELSE JFail

\* Object members from p (whitespace already skipped), up to the closing brace.
scanMembers(s, p, acc) ==
  IF p > Len(s) \/ s[p] # "\"" THEN JFail
  ELSE memberColon(s, acc, scanString(s, p + 1, <<>>))

\* k is the key just scanned.
memberColon(s, acc, k) ==
  IF ~k.ok THEN JFail
  ELSE memberValue(s, acc, k, skipWs(s, k.pos))

\* c is the position of the colon after the key.
memberValue(s, acc, k, c) ==
  IF c > Len(s) \/ s[c] # ":" THEN JFail
  ELSE membersNext(s, k, [acc |-> acc, e |-> scanValue(s, skipWs(s, c + 1))])

\* m.e is the member's value just scanned.
membersNext(s, k, m) ==
  IF ~m.e.ok THEN JFail
  ELSE IF skipWs(s, m.e.pos) > Len(s) THEN JFail
  ELSE IF s[skipWs(s, m.e.pos)] = "}"
       THEN JOk(JDict(dictSet(m.acc, k.val.v, m.e.val)), skipWs(s, m.e.pos) + 1)
  ELSE IF s[skipWs(s, m.e.pos)] = ","
       THEN scanMembers(s, skipWs(s, skipWs(s, m.e.pos) + 1),
                        dictSet(m.acc, k.val.v, m.e.val))
  ELSE JFail

\* r is the value scanned from the first non-whitespace position.
loadsEnd(s, r) == IF r.ok /\ skipWs(s, r.pos) = Len(s) + 1 THEN r ELSE JFail

\* json.loads(s): ok = FALSE stands for JSONDecodeError.
json_loads(s) == loadsEnd(s, scanValue(s, skipWs(s, 1)))

RECURSIVE intText(_)
intText(n) ==
  IF n < 0 THEN <<"-">> \o intText(0 - n)
  ELSE IF n < 10 THEN <<Digits[n + 1]>>
  ELSE intText(n \div 10) \o <<Digits[(n % 10) + 1]>>

RECURSIVE json_dumps(_)
RECURSIVE dumpsElems(_, _)
RECURSIVE dumpsMembers(_, _)

\* json.dumps(v) with the default separators ", " and ": ".
json_dumps(j) ==
  IF j.t = "list" THEN <<"[">> \o dumpsElems(j.v, 1) \o <<"]">>
  ELSE IF j.t = "dict" THEN <<"{">> \o dumpsMembers(j.v, 1) \o <<"}">>
  ELSE IF j.t = "str" THEN <<"\"">> \o j.v \o <<"\"">>
  ELSE IF j.t = "int" THEN intText(j.v)
  ELSE j.v

dumpsElems(v, i) ==
  IF i > Len(v) THEN <<>>
  ELSE (IF i > 1 THEN <<",", " ">> ELSE <<>>) \o json_dumps(v[i]) \o dumpsElems(v, i + 1)

dumpsMembers(v, i) ==
  IF i > Len(v) THEN <<>>
  ELSE (IF i > 1 THEN <<",", " ">> ELSE <<>>)
       \o <<"\"">> \o v[i][1] \o <<"\"", ":", " ">> \o json_dumps(v[i][2])
       \o dumpsMembers(v, i + 1)

\* action_items if isinstance(action_items, list) else []; a decode error gives [].
list_or_empty(action_items) ==
  IF ~action_items.ok THEN <<>>
  ELSE IF action_items.val.t = "list" THEN action_items.val.v
  ELSE <<>>

\* r is the stripped response, start_idx / end_idx the first "[" and the last "]".
array_between(r, start_idx, end_idx) ==
  IF start_idx # -1 /\ end_idx # -1
  THEN list_or_empty(json_loads(slice(r, start_idx, end_idx + 1)))
  ELSE <<>>

\* A search that ends the array at the first "]".
find_array_first_close(r) == array_between(r, find(r, "["), find(r, "]"))

find_array(r) == array_between(r, find(r, "["), rfind(r, "]"))

\* The tail of extract_action_items: response is _call_llm's result.  The value
\* is the Python list as a sequence of parsed values.
interpret_action_items(response) ==
  IF Truthy(response) THEN find_array(strip(response)) ELSE <<>>

(***************************************************************************)
(* Prompt construction.  LLMService builds the prompt with str.format,     *)
(* OllamaService with str.replace.  A result is [raised, text].            *)
(* Templates are texts whose replacement fields carry no conversion or     *)
(* format spec of their own ("{email_content!r}" is outside the inputs).   *)
(***************************************************************************)
EmailContentField == <<"e","m","a","i","l","_","c","o","n","t","e","n","t">>
Placeholder == <<"{">> \o EmailContentField \o <<"}">>

Raised == [raised |-> TRUE, text |-> <<>>]
Built(text) == [raised |-> FALSE, text |-> text]

\* template.format(email_content=content): "{{" and "}}" are literal braces,
\* "{email_content}" is the argument, any other field raises KeyError /
\* IndexError, an unmatched brace raises ValueError.
RECURSIVE format(_, _, _, _)
format(t, p, content, acc) ==
  IF p > Len(t) THEN Built(acc)
  ELSE IF t[p] = "{" THEN
    IF p + 1 <= Len(t) /\ t[p + 1] = "{" THEN format(t, p + 2, content, Append(acc, "{"))
    ELSE LET closers == {q \in (p + 1)..Len(t) : t[q] = "}"}
         IN  IF closers = {} THEN Raised
             ELSE LET q == CHOOSE x \in closers : \A y \in closers : x <= y
                  IN  IF SubSeq(t, p + 1, q - 1) = EmailContentField
                      THEN format(t, q + 1, content, acc \o content)
                      ELSE Raised
  ELSE IF t[p] = "}" THEN
    IF p + 1 <= Len(t) /\ t[p + 1] = "}" THEN format(t, p + 2, content, Append(acc, "}"))
    ELSE Raised
  ELSE format(t, p + 1, content, Append(acc, t[p]))

\* template.replace("{email_content}", content): never raises.
RECURSIVE replace(_, _, _, _)
replace(t, p, content, acc) ==
  IF p > Len(t) THEN Built(acc)
  ELSE IF startsWith(t, p, Placeholder)
       THEN replace(t, p + Len(Placeholder), content, acc \o content)
       ELSE replace(t, p + 1, content, Append(acc, t[p]))

\* The user prompt of categorize_email / extract_action_items.
build_prompt(provider, template, email_content) ==
  IF provider = "openai" THEN format(template, 1, email_content, <<>>)
  ELSE replace(template, 1, email_content, <<>>)

(***************************************************************************)
(* Provider client: _call_llm of LLMService ("openai") and OllamaService   *)
(* ("ollama").  The backend's behaviour on the attempts of one call is a   *)
(* script: script[k + 1] is what attempt k meets, a record                 *)
(* [kind, text, usage] with kind one of                                    *)
(*   ok        a completion (HTTP 200) with content text; text is None     *)
(*             when the completion carries a null content                  *)
(*   rate      RateLimitError           / HTTP 429                         *)
(*   timeout   APITimeoutError          / requests Timeout                 *)
(*   conn      APIConnectionError       / requests ConnectionError         *)
(*   error     another APIError         / another non-200 status           *)
(*   notfound  NotFoundError (APIError) / HTTP 404                         *)
(*   other     any other exception                                         *)
(* The result is [result, attempts, sleeps, tokens]: the text or None, the *)
(* number of requests sent, the time.sleep calls in order as <<attempt,    *)
(* seconds>> (attempt counted from 0), and the amount                      *)
(* added to total_tokens_used (in tenths of a token: OllamaService adds    *)
(* 1.3 per word); raised tells whether an exception left the call.         *)
(***************************************************************************)
MAX_RETRIES == 3
OLLAMA_MAX_RETRIES == 3

RECURSIVE pow2(_)
pow2(n) == IF n = 0 THEN 1 ELSE 2 * pow2(n - 1)

\* len(content.split())
wordCount(s) ==
  Cardinality({i \in DOMAIN s : s[i] \notin Whitespace /\ (i = 1 \/ s[i - 1] \in Whitespace)})

CallResult(result, attempts, sleeps, tokens) ==
  [result |-> result, attempts |-> attempts, sleeps |-> sleeps, tokens |-> tokens,
   raised |-> FALSE]

\* A retry loop with two switches: uncaught drops the except Exception clause,
\* charged adds a completion's worth of usage when the attempts run out.
RECURSIVE openai_loop(_, _, _, _, _, _)
openai_loop(max_retries, script, attempt, sleeps, uncaught, charged) ==
  IF attempt >= max_retries THEN CallResult(None, attempt, sleeps, 0)
  ELSE LET o == script[attempt + 1]
           last == ~(attempt < max_retries - 1)
       IN  CASE o.kind = "ok" ->
                  CallResult(o.text, attempt + 1, sleeps, 10 * o.usage)
             [] o.kind = "rate" ->
                  IF last THEN CallResult(None, attempt + 1, sleeps, IF charged THEN 10 ELSE 0)
                  ELSE openai_loop(max_retries, script, attempt + 1,
                                   Append(sleeps, <<attempt, pow2(attempt)>>), uncaught, charged)
             [] o.kind \in {"timeout", "conn", "error", "notfound"} ->
                  IF last THEN CallResult(None, attempt + 1, sleeps, IF charged THEN 10 ELSE 0)
                  ELSE openai_loop(max_retries, script, attempt + 1,
                                   Append(sleeps, <<attempt, 1>>), uncaught, charged)
             [] OTHER -> [CallResult(None, attempt + 1, sleeps, 0) EXCEPT !.raised = uncaught]

\* A client whose loop lets an unexpected exception leave the call.
openai_call_llm_uncaught(max_retries, script, attempt, sleeps) ==
  openai_loop(max_retries, script, attempt, sleeps, TRUE, FALSE)

\* A client that counts usage for a call whose attempts ran out.
openai_call_llm_charging_failures(max_retries, script, attempt, sleeps) ==
  openai_loop(max_retries, script, attempt, sleeps, FALSE, TRUE)

\* A client whose loop sends its first request before it tests the count.
openai_call_llm_request_first(max_retries, script, attempt, sleeps) ==
  openai_loop(IF max_retries = 0 THEN 1 ELSE max_retries, script, attempt, sleeps, FALSE, FALSE)

\* LLMService._call_llm from attempt `attempt` on (stream = False).
RECURSIVE openai_call_llm(_, _, _, _)
openai_call_llm(max_retries, script, attempt, sleeps) ==
  IF attempt >= max_retries THEN CallResult(None, attempt, sleeps, 0)
  ELSE LET o == script[attempt + 1]
           last == ~(attempt < max_retries - 1)
       IN  CASE o.kind = "ok" ->
                  CallResult(o.text, attempt + 1, sleeps, 10 * o.usage)
             [] o.kind = "rate" ->
                  IF last THEN CallResult(None, attempt + 1, sleeps, 0)
                  ELSE openai_call_llm(max_retries, script, attempt + 1,
                                       Append(sleeps, <<attempt, pow2(attempt)>>))
             [] o.kind \in {"timeout", "conn", "error", "notfound"} ->
                  IF last THEN CallResult(None, attempt + 1, sleeps, 0)
                  ELSE openai_call_llm(max_retries, script, attempt + 1,
                                       Append(sleeps, <<attempt, 1>>))
             [] OTHER -> CallResult(None, attempt + 1, sleeps, 0)

\* OllamaService._call_llm from attempt `attempt` on.
RECURSIVE ollama_call_llm(_, _, _, _)
ollama_call_llm(max_retries, script, attempt, sleeps) ==
  IF attempt >= max_retries THEN CallResult(None, attempt, sleeps, 0)
  ELSE LET o == script[attempt + 1]
           last == ~(attempt < max_retries - 1)
       IN  CASE o.kind = "ok" ->
                  \* content.split() on a null content is caught by except Exception
                  IF o.text = None THEN CallResult(None, attempt + 1, sleeps, 0)
                  ELSE CallResult(o.text, attempt + 1, sleeps, 13 * wordCount(o.text))
             [] o.kind = "notfound" -> CallResult(None, attempt + 1, sleeps, 0)
             [] o.kind \in {"rate", "error"} ->
                  ollama_call_llm(max_retries, script, attempt + 1, sleeps)
             [] o.kind = "conn" ->
                  IF last THEN CallResult(None, attempt + 1, sleeps, 0)
                  ELSE ollama_call_llm(max_retries, script, attempt + 1,
                                       Append(sleeps, <<attempt, 2>>))
             [] o.kind = "timeout" ->
                  IF last THEN CallResult(None, attempt + 1, sleeps, 0)
                  ELSE ollama_call_llm(max_retries, script, attempt + 1,
                                       Append(sleeps, <<attempt, 1>>))
             [] OTHER -> CallResult(None, attempt + 1, sleeps, 0)

\* _call_llm of the client of `provider` constructed when config.MAX_RETRIES is
\* `configured`: LLMService copies it, OllamaService sets its own 3.
service_call_llm(provider, configured, script) ==
  IF provider = "openai" THEN openai_call_llm(configured, script, 0, <<>>)
  ELSE ollama_call_llm(OLLAMA_MAX_RETRIES, script, 0, <<>>)

\* self.service._call_llm of the provider the orchestrator selected.
call_llm(provider, script) ==
  IF provider = "openai" THEN openai_call_llm(MAX_RETRIES, script, 0, <<>>)
  ELSE ollama_call_llm(OLLAMA_MAX_RETRIES, script, 0, <<>>)

\* OllamaService.check_health: tags is the backend's answer to GET /api/tags,
\* [kind, names] with kind "ok" (HTTP 200 with the model names), "status"
\* (another status) or "error" (any exception).
OLLAMA_MODEL == <<"l","l","a","m","a","3",".","2">>

check_health(tags) ==
  /\ tags.kind = "ok"
  /\ \E name \in tags.names : contains(OLLAMA_MODEL, name)

NoService == "None"

\* A constructor that falls back to the local client on an unknown selector.
unified_init_defaulting(selector, healthy) ==
  IF selector = "openai"
  THEN [raised |-> FALSE, service |-> "LLMService", warned |-> FALSE]
  ELSE [raised |-> FALSE, service |-> "OllamaService", warned |-> ~healthy]

\* UnifiedLLMService.__init__ with config.LLM_PROVIDER = selector; healthy is
\* check_health's result (asked for the local client only).  raised: ValueError
\* left the constructor; warned: the warning about the model was logged.
unified_init(selector, healthy) ==
  IF selector = "ollama"
  THEN [raised |-> FALSE, service |-> "OllamaService", warned |-> ~healthy]
  ELSE IF selector = "openai"
  THEN [raised |-> FALSE, service |-> "LLMService", warned |-> FALSE]
  ELSE [raised |-> TRUE, service |-> NoService, warned |-> FALSE]

\* r is _call_llm's result.
categorized_result(r) ==
  [raised |-> FALSE, result |-> interpret_category(r.result),
   tokens |-> r.tokens, requests |-> r.attempts]

extracted_result(r) ==
  [raised |-> FALSE, result |-> interpret_action_items(r.result),
   tokens |-> r.tokens, requests |-> r.attempts]

\* categorize_email of either provider: [raised, result, tokens, requests],
\* requests = 0 when the prompt could not be built.
categorize_email(provider, email_content, categorization_prompt, script) ==
  IF build_prompt(provider, categorization_prompt, email_content).raised
  THEN [raised |-> TRUE, result |-> None, tokens |-> 0, requests |-> 0]
  ELSE categorized_result(call_llm(provider, script))

\* extract_action_items of either provider.
extract_action_items(provider, email_content, action_prompt, script) ==
  IF build_prompt(provider, action_prompt, email_content).raised
  THEN [raised |-> TRUE, result |-> <<>>, tokens |-> 0, requests |-> 0]
  ELSE extracted_result(call_llm(provider, script))

(***************************************************************************)
(* The store (backend/database.py).  emails maps the ids present to their  *)
(* rows, prompts maps a prompt_type to the text of its row or to None when *)
(* there is no active row, logs is the processing_logs table in insertion  *)
(* order.  A store operation may fail (sqlite3 raising inside the          *)
(* connection's with block); fault names how.                              *)
(***************************************************************************)
NoneList == [t |-> "None", v |-> <<>>]
NoneBool == "None"

PromptTypes == {"categorization", "action_extraction", "auto_reply"}

\* A connection that commits what the block did even when it raised.
get_connection_without_rollback(before, after, raisedInside, commitFails) ==
  [raised |-> raisedInside \/ commitFails, table |-> after]

\* get_connection: commit the work done inside the with block, or on an
\* exception roll it back and re-raise.  before/after are the table before the
\* block and as the block's statements left it.
get_connection(before, after, raisedInside, commitFails) ==
  IF raisedInside \/ commitFails
  THEN [raised |-> TRUE, table |-> before]
  ELSE [raised |-> FALSE, table |-> after]

\* _row_to_email: the Email object of a row.
row_to_email(row) ==
  [id |-> row.id, sender |-> row.sender, subject |-> row.subject, body |-> row.body,
   timestamp |-> row.timestamp,
   category |-> row.category,
   action_items |-> IF row.action_items_json # <<>>
                    THEN json_loads(row.action_items_json).val
                    ELSE JList(<<>>),
   processed |-> row.processed # 0]

\* insert_email's row for an Email object.
email_to_row(email) ==
  [id |-> email.id, sender |-> email.sender, subject |-> email.subject, body |-> email.body,
   timestamp |-> email.timestamp,
   category |-> email.category,
   action_items_json |-> json_dumps(email.action_items),
   processed |-> IF email.processed THEN 1 ELSE 0]

\* Email(id, sender, subject, body, timestamp) with the dataclass defaults; a
\* timestamp is an instant, written as its number.
NewEmail(id, sender, subject, body, timestamp) ==
  [id |-> id, sender |-> sender, subject |-> subject, body |-> body,
   timestamp |-> timestamp,
   category |-> None, action_items |-> JList(<<>>), processed |-> FALSE]

\* get_email: [raised, found, email].
get_email(emailsT, email_id, fault) ==
  IF fault THEN [raised |-> TRUE, found |-> FALSE, email |-> NewEmail(0, <<>>, <<>>, <<>>, 0)]
  ELSE IF email_id \in DOMAIN emailsT
  THEN [raised |-> FALSE, found |-> TRUE, email |-> row_to_email(emailsT[email_id])]
  ELSE [raised |-> FALSE, found |-> FALSE, email |-> NewEmail(0, <<>>, <<>>, <<>>, 0)]

\* The prompts table as init_database creates it: no row, no id handed out.
NoPromptRows == [rows |-> {}, seq |-> 0]

\* Prompt(id=None, prompt_type, prompt_text, is_active).
Prompt(prompt_type, prompt_text, is_active) ==
  [prompt_type |-> prompt_type, prompt_text |-> prompt_text, is_active |-> is_active]

\* A plain INSERT on a table without the UNIQUE constraint: the old row stays.
insert_prompt_keeping_old(promptsT, prompt) ==
  [rows |-> promptsT.rows \cup {[id |-> promptsT.seq + 1,
                                 prompt_type |-> prompt.prompt_type,
                                 prompt_text |-> prompt.prompt_text,
                                 is_active |-> IF prompt.is_active THEN 1 ELSE 0]},
   seq |-> promptsT.seq + 1]

\* insert_prompt: INSERT OR REPLACE deletes the row that holds the UNIQUE
\* prompt_type and inserts the new row under the next AUTOINCREMENT id.
insert_prompt(promptsT, prompt) ==
  [rows |-> {r \in promptsT.rows : r.prompt_type # prompt.prompt_type}
              \cup {[id |-> promptsT.seq + 1,
                     prompt_type |-> prompt.prompt_type,
                     prompt_text |-> prompt.prompt_text,
                     is_active |-> IF prompt.is_active THEN 1 ELSE 0]},
   seq |-> promptsT.seq + 1]

\* The rows SELECT * FROM prompts WHERE prompt_type = ? AND is_active = 1 gives.
active_rows(promptsT, prompt_type) ==
  {r \in promptsT.rows : r.prompt_type = prompt_type /\ r.is_active = 1}

\* get_prompt on the rows: fetchone() of that SELECT, any one of its rows;
\* the text of the row, None when there is none.
select_prompt(promptsT, prompt_type) ==
  IF active_rows(promptsT, prompt_type) = {} THEN {None}
  ELSE {r.prompt_text : r \in active_rows(promptsT, prompt_type)}

\* get_prompt: [raised, prompt_text], prompt_text = None when no active row.
get_prompt(promptsT, prompt_type, fault) ==
  IF fault THEN [raised |-> TRUE, prompt_text |-> None]
  ELSE [raised |-> FALSE, prompt_text |-> promptsT[prompt_type]]

\* An UPDATE that takes processed from whether there are action items.
\* An UPDATE that keeps a category the row already has.
update_row_keeping_category(row, category, action_items, processed) ==
  [row EXCEPT
     !.category = IF category # None /\ row.category = None THEN category ELSE @,
     !.action_items_json = IF action_items # NoneList THEN json_dumps(action_items) ELSE @,
     !.processed = IF processed # NoneBool THEN (IF processed = "True" THEN 1 ELSE 0) ELSE @]

\* An UPDATE that writes all three columns, passed or not.
update_row_writing_all(row, category, action_items, processed) ==
  [row EXCEPT
     !.category = category,
     !.action_items_json = IF action_items # NoneList THEN json_dumps(action_items)
                           ELSE json_dumps(JList(<<>>)),
     !.processed = IF processed = "True" THEN 1 ELSE 0]

\* update_row writing the task list only when it is non-empty.
update_row_keeping_tasks_when_empty(row, category, action_items, processed) ==
  [row EXCEPT
     !.category = IF category # None THEN category ELSE @,
     !.action_items_json = IF action_items # NoneList /\ action_items.v # <<>>
                           THEN json_dumps(action_items) ELSE @,
     !.processed = IF processed # NoneBool THEN (IF processed = "True" THEN 1 ELSE 0) ELSE @]

update_row_processed_if_tasks(row, category, action_items, processed) ==
  [row EXCEPT
     !.category = IF category # None THEN category ELSE @,
     !.action_items_json = IF action_items # NoneList THEN json_dumps(action_items) ELSE @,
     !.processed = IF action_items # NoneList /\ action_items.v # <<>> THEN 1 ELSE 0]

\* The UPDATE statement of update_email on the rows with this id.
update_row(row, category, action_items, processed) ==
  [row EXCEPT
     !.category = IF category # None THEN category ELSE @,
     !.action_items_json = IF action_items # NoneList THEN json_dumps(action_items) ELSE @,
     !.processed = IF processed # NoneBool THEN (IF processed = "True" THEN 1 ELSE 0) ELSE @]

\* An update in two transactions, the category first: a fault meets the second.
update_email_in_two_steps(emailsT, email_id, category, action_items, processed, fault) ==
  IF email_id \notin DOMAIN emailsT THEN [raised |-> fault # "none", table |-> emailsT]
  ELSE IF fault # "none"
  THEN [raised |-> TRUE,
        table |-> [emailsT EXCEPT ![email_id] = update_row(@, category, NoneList, NoneBool)]]
  ELSE [raised |-> FALSE,
        table |-> [emailsT EXCEPT
                     ![email_id] = update_row(@, category, action_items, processed)]]

\* An UPDATE without its WHERE clause: every row takes the new values.
update_email_every_row(emailsT, email_id, category, action_items, processed, fault) ==
  LET updates == category # None \/ action_items # NoneList \/ processed # NoneBool
      after == IF updates /\ fault # "execute" /\ email_id \in DOMAIN emailsT
               THEN [i \in DOMAIN emailsT |->
                       update_row(emailsT[i], category, action_items, processed)]
               ELSE emailsT
  IN  get_connection(emailsT, after, updates /\ fault = "execute", fault = "commit")

\* update_email: [raised, table].  fault: "none", "execute" (the statement
\* raises) or "commit" (the commit raises).
update_email(emailsT, email_id, category, action_items, processed, fault) ==
  LET updates == category # None \/ action_items # NoneList \/ processed # NoneBool
      after == IF updates /\ fault # "execute" /\ email_id \in DOMAIN emailsT
               THEN [emailsT EXCEPT
                       ![email_id] = update_row(@, category, action_items, processed)]
               ELSE emailsT
  IN  get_connection(emailsT, after, updates /\ fault = "execute", fault = "commit")

\* insert_log writing the new entry in front of the existing ones.
insert_log_newest_first(logsT, log, fault) ==
  get_connection(logsT, IF fault = "execute" THEN logsT ELSE <<log>> \o logsT,
                 fault = "execute", fault = "commit")

\* insert_log: [raised, table].
insert_log(logsT, log, fault) ==
  get_connection(logsT, IF fault = "execute" THEN logsT ELSE Append(logsT, log),
                 fault = "execute", fault = "commit")

(***************************************************************************)
(* Inputs: the ids, templates, email texts and backend behaviours the      *)
(* operations are run on.                                                  *)
(***************************************************************************)
\* f"From: {email.sender}\nSubject: {email.subject}\n\n{email.body}"
email_content(email) ==
  <<"F","r","o","m",":"," ">> \o email.sender
    \o <<"\n","S","u","b","j","e","c","t",":"," ">> \o email.subject
    \o <<"\n","\n">> \o email.body

\* The ids ingestion writes, and the ids the operations are called with (one
\* of them never ingested).
EmailIds == {1}
RunIds == {1, 2}
Providers == {"openai", "ollama"}

\* Template texts the configuration surface writes.
PlainTemplate   == <<"C",":"," ">> \o Placeholder
BracesTemplate  == <<"{","\"","t","\"","}"," ">> \o Placeholder
PromptTexts == {PlainTemplate, BracesTemplate}
TemplatesOf ==
  [t \in {"categorization", "action_extraction", "auto_reply"} |->
     IF t = "auto_reply" THEN {PlainTemplate} ELSE PromptTexts]

Ok(text) == [kind |-> "ok", text |-> text, usage |-> 1]
Fail(kind) == [kind |-> kind, text |-> <<>>, usage |-> 0]

\* Backend behaviours on the categorization call.
CatScripts ==
  { <<Ok(<<"I","t"," ","i","s"," ","s","p","a","m","!">>), Fail("other"), Fail("other")>>,
    <<Fail("timeout"), Ok(<<" ","L","a","t","e","r","\n">>), Fail("other")>>,
    <<Ok(<<" ","\n">>), Fail("other"), Fail("other")>>,
    <<Fail("rate"), Fail("rate"), Fail("rate")>>,
    <<Fail("other"), Fail("other"), Fail("other")>> }

\* Backend behaviours on the extraction call.
ActScripts ==
  { <<Ok(<<"o","k",":"," ","[","{","\"","t","a","s","k","\"",":"," ","\"","R","\"","}","]"," ","!">>),
      Fail("other"), Fail("other")>>,
    <<Ok(<<"[","]">>), Fail("other"), Fail("other")>>,
    <<Ok(<<"[","o","o","p","s">>), Fail("other"), Fail("other")>>,
    <<Ok(<<"[","1","]">>), Fail("other"), Fail("other")>>,
    <<Fail("conn"), Fail("conn"), Fail("conn")>> }

\* The email texts ingestion writes (sender, subject, body).
Sender  == <<"a">>
Subject == <<"s">>
Body    == <<"b">>
Contents == {email_content(NewEmail(1, Sender, Subject, Body, 1))}

\* categorize_email / extract_action_items on the inputs above, as tables.
categorize_memo ==
  [p \in Providers, c \in Contents, t \in PromptTexts, s \in CatScripts |->
     categorize_email(p, c, t, s)]
extract_memo ==
  [p \in Providers, c \in Contents, t \in PromptTexts, s \in ActScripts |->
     extract_action_items(p, c, t, s)]

\* Store faults a run may meet: a failing update, failing log inserts, a
\* failing lookup of the email or of a prompt.
RunFaults == {{}, {"update_execute"}, {"update_commit"}}
ReadFaults == {"get_email", "get_prompt_cat", "get_prompt_act"}
LogFails == {{}, {1}, {2}, {3}}

CatOk == CHOOSE s \in CatScripts : s[1].kind = "ok" /\ Len(s[1].text) > 5
ActOk == CHOOSE s \in ActScripts : s[1].kind = "ok" /\ Len(s[1].text) > 5
CatFail == CHOOSE s \in CatScripts : s[1].kind = "rate"

Env(c, a, f, l) == [catScript |-> c, actScript |-> a, faults |-> f, logFail |-> l]

\* The environments of a run: every backend behaviour of either call, every
\* store fault and every failing log insert, each against an otherwise
\* successful run, and the store faults together.
Envs ==
  {Env(c, ActOk, {}, {}) : c \in CatScripts}
    \cup {Env(CatOk, a, {}, {}) : a \in ActScripts}
    \cup {Env(CatOk, ActOk, f, {}) : f \in RunFaults}
    \cup {Env(CatOk, ActOk, f, l) : f \in {{}, {"update_execute"}}, l \in LogFails}
    \cup {Env(CatFail, ActOk, {}, l) : l \in {{1}, {2}}}

\* The environments of a run whose store may also fail on a lookup.
FaultEnvs == Envs \cup {Env(CatOk, ActOk, {f}, {}) : f \in ReadFaults}

(***************************************************************************)
(* The processing pipeline (backend/email_processor.py).                   *)
(* A run works on S = [emails, prompts, logs, provider] under an           *)
(* environment env = [catScript, actScript, faults, logFail]:              *)
(*   catScript, actScript  the backend's behaviour on the two model calls  *)
(*   faults    the store operations of the run that raise, a subset of     *)
(*             {"get_email", "get_prompt_cat", "get_prompt_act",           *)
(*              "update_execute", "update_commit"}                         *)
(*   logFail   the positions (1, 2, 3) of the run's insert_log calls that  *)
(*             raise                                                       *)
(* calls is the sequence of the store and orchestrator calls the run made, *)
(* each <<operation, argument>>.                                           *)
(***************************************************************************)
LogEntry(email_id, operation, status) ==
  [email_id |-> email_id, operation |-> operation, status |-> status]

\* _log_processing: a failing insert_log is caught and dropped.
log_processing(logsT, email_id, operation, status, fail) ==
  insert_log(logsT, LogEntry(email_id, operation, status),
             IF fail THEN "execute" ELSE "none").table

CatStep(raised, category, logsT, tokens, calls, nlog) ==
  [raised |-> raised, category |-> category, logs |-> logsT, tokens |-> tokens,
   calls |-> calls, nlog |-> nlog]

\* _categorize_email logging only a categorization that gave a category.
categorize_log_success_only(S, email, env, r) ==
  IF r.raised
  THEN CatStep(TRUE, None, S.logs, 0,
               <<<<"get_prompt", "categorization">>, <<"categorize_email", "llm">>>>, 0)
  ELSE IF ~Truthy(r.result)
  THEN CatStep(FALSE, r.result, S.logs, r.tokens,
               <<<<"get_prompt", "categorization">>, <<"categorize_email", "llm">>>>, 0)
  ELSE CatStep(FALSE, r.result,
               log_processing(S.logs, email.id, "categorization", "success",
                              1 \in env.logFail),
               r.tokens,
               <<<<"get_prompt", "categorization">>, <<"categorize_email", "llm">>,
                 <<"insert_log", "categorization">>>>,
               1)

\* _categorize_email after the model call: r is categorize_email's result.
categorize_log(S, email, env, r) ==
  IF r.raised
  THEN CatStep(TRUE, None, S.logs, 0,
               <<<<"get_prompt", "categorization">>, <<"categorize_email", "llm">>>>, 0)
  ELSE CatStep(FALSE, r.result,
               log_processing(S.logs, email.id, "categorization",
                              IF Truthy(r.result) THEN "success" ELSE "failed",
                              1 \in env.logFail),
               r.tokens,
               <<<<"get_prompt", "categorization">>, <<"categorize_email", "llm">>,
                 <<"insert_log", "categorization">>>>,
               1)

\* A lookup that falls back to a built-in template when none is stored.
categorize_with_default(S, email, env, prompt_obj) ==
  IF prompt_obj.raised
  THEN CatStep(TRUE, None, S.logs, 0, <<<<"get_prompt", "categorization">>>>, 0)
  ELSE categorize_log(S, email, env,
         categorize_memo[S.provider, email_content(email),
                         IF prompt_obj.prompt_text = None THEN PlainTemplate
                         ELSE prompt_obj.prompt_text,
                         env.catScript])

\* _categorize_email after the template lookup: prompt_obj is get_prompt's result.
categorize_call(S, email, env, prompt_obj) ==
  IF prompt_obj.raised
  THEN CatStep(TRUE, None, S.logs, 0, <<<<"get_prompt", "categorization">>>>, 0)
  ELSE IF prompt_obj.prompt_text = None
  THEN CatStep(FALSE, None, S.logs, 0, <<<<"get_prompt", "categorization">>>>, 0)
  ELSE categorize_log(S, email, env,
         categorize_memo[S.provider, email_content(email), prompt_obj.prompt_text,
                         env.catScript])

\* _categorize_email: [raised, category, logs, tokens, calls, nlog].
categorize_step(S, email, env) ==
  categorize_call(S, email, env,
                  get_prompt(S.prompts, "categorization", "get_prompt_cat" \in env.faults))

ActStep(raised, action_items, logsT, tokens, calls, nlog) ==
  [raised |-> raised, action_items |-> action_items, logs |-> logsT, tokens |-> tokens,
   calls |-> calls, nlog |-> nlog]

\* A step that logs an empty extraction as failed.
extract_log_by_result(logsT, email, env, nlog, r) ==
  IF r.raised
  THEN ActStep(TRUE, JList(<<>>), logsT, 0,
               <<<<"get_prompt", "action_extraction">>, <<"extract_action_items", "llm">>>>,
               nlog)
  ELSE ActStep(FALSE, JList(r.result),
               log_processing(logsT, email.id, "action_extraction",
                              IF r.result # <<>> THEN "success" ELSE "failed",
                              (nlog + 1) \in env.logFail),
               r.tokens,
               <<<<"get_prompt", "action_extraction">>, <<"extract_action_items", "llm">>,
                 <<"insert_log", "action_extraction">>>>,
               nlog + 1)

\* _extract_action_items after the model call: r is extract_action_items' result.
extract_log(logsT, email, env, nlog, r) ==
  IF r.raised
  THEN ActStep(TRUE, JList(<<>>), logsT, 0,
               <<<<"get_prompt", "action_extraction">>, <<"extract_action_items", "llm">>>>,
               nlog)
  ELSE ActStep(FALSE, JList(r.result),
               log_processing(logsT, email.id, "action_extraction", "success",
                              (nlog + 1) \in env.logFail),
               r.tokens,
               <<<<"get_prompt", "action_extraction">>, <<"extract_action_items", "llm">>,
                 <<"insert_log", "action_extraction">>>>,
               nlog + 1)

\* A lookup for which a missing extraction template is an error.
extract_call_requiring_template(S, logsT, email, env, nlog, prompt_obj) ==
  IF prompt_obj.raised \/ prompt_obj.prompt_text = None
  THEN ActStep(TRUE, JList(<<>>), logsT, 0, <<<<"get_prompt", "action_extraction">>>>, nlog)
  ELSE extract_log(logsT, email, env, nlog,
         extract_memo[S.provider, email_content(email), prompt_obj.prompt_text,
                      env.actScript])

\* _extract_action_items after the template lookup.
extract_call(S, logsT, email, env, nlog, prompt_obj) ==
  IF prompt_obj.raised
  THEN ActStep(TRUE, JList(<<>>), logsT, 0, <<<<"get_prompt", "action_extraction">>>>, nlog)
  ELSE IF prompt_obj.prompt_text = None
  THEN ActStep(FALSE, JList(<<>>), logsT, 0, <<<<"get_prompt", "action_extraction">>>>, nlog)
  ELSE extract_log(logsT, email, env, nlog,
         extract_memo[S.provider, email_content(email), prompt_obj.prompt_text,
                      env.actScript])

\* _extract_action_items, after nlog insert_log calls of the run:
\* [raised, action_items, logs, tokens, calls, nlog].
extract_step(S, logsT, email, env, nlog) ==
  extract_call(S, logsT, email, env, nlog,
               get_prompt(S.prompts, "action_extraction", "get_prompt_act" \in env.faults))

RunResult(ret, emailsT, logsT, tokens, calls, category, action_items) ==
  [ret |-> ret, emails |-> emailsT, logs |-> logsT, tokens |-> tokens, calls |-> calls,
   category |-> category, action_items |-> action_items]

\* An end of process_email that reports a failed update without logging it.
update_log_unlogged(email_id, env, cat, act, u) ==
  RunResult(IF u.raised THEN "False" ELSE "True", u.table,
            IF u.raised THEN act.logs
            ELSE log_processing(act.logs, email_id, "complete_processing", "success",
                                (act.nlog + 1) \in env.logFail),
            cat.tokens + act.tokens,
            <<<<"get_email", "">>>> \o cat.calls \o act.calls
              \o (IF u.raised THEN <<<<"update_email", "">>>>
                  ELSE <<<<"update_email", "">>, <<"insert_log", "complete_processing">>>>),
            cat.category, act.action_items)

\* The end of process_email: u is update_email's result.
update_log(email_id, env, cat, act, u) ==
  IF ~u.raised
  THEN RunResult("True", u.table,
                 log_processing(act.logs, email_id, "complete_processing", "success",
                                (act.nlog + 1) \in env.logFail),
                 cat.tokens + act.tokens,
                 <<<<"get_email", "">>>> \o cat.calls \o act.calls
                   \o <<<<"update_email", "">>, <<"insert_log", "complete_processing">>>>,
                 cat.category, act.action_items)
  ELSE RunResult("False", u.table,
                 log_processing(act.logs, email_id, "database_update", "failed",
                                (act.nlog + 1) \in env.logFail),
                 cat.tokens + act.tokens,
                 <<<<"get_email", "">>>> \o cat.calls \o act.calls
                   \o <<<<"update_email", "">>, <<"insert_log", "database_update">>>>,
                 cat.category, act.action_items)

\* Step 3 of process_email: the update and the closing log entry.
update_step(S, email_id, env, cat, act) ==
  IF act.raised
  THEN RunResult("raise", S.emails, act.logs, cat.tokens + act.tokens,
                 <<<<"get_email", "">>>> \o cat.calls \o act.calls,
                 cat.category, JList(<<>>))
  ELSE update_log(email_id, env, cat, act,
         update_email(S.emails, email_id, cat.category, act.action_items, "True",
                      IF "update_execute" \in env.faults THEN "execute"
                      ELSE IF "update_commit" \in env.faults THEN "commit"
                      ELSE "none"))

\* A pipeline that goes on to extraction and update whatever the category.
process_without_abort(S, email, env, cat) ==
  IF cat.raised
  THEN RunResult("raise", S.emails, cat.logs, cat.tokens,
                 <<<<"get_email", "">>>> \o cat.calls, None, JList(<<>>))
  ELSE update_step(S, email.id, env, cat,
                   extract_step(S, cat.logs, email, env, cat.nlog))

\* A pipeline that extracts first and looks at the category afterwards.
abort_after_extract(S, email, env, cat, act) ==
  IF act.raised \/ Truthy(cat.category)
  THEN update_step(S, email.id, env, cat, act)
  ELSE RunResult("False", S.emails,
                 log_processing(act.logs, email.id, "categorization", "failed",
                                (act.nlog + 1) \in env.logFail),
                 cat.tokens + act.tokens,
                 <<<<"get_email", "">>>> \o cat.calls \o act.calls
                   \o <<<<"insert_log", "categorization">>>>,
                 cat.category, JList(<<>>))

extract_before_check(S, email, env, cat) ==
  IF cat.raised
  THEN RunResult("raise", S.emails, cat.logs, cat.tokens,
                 <<<<"get_email", "">>>> \o cat.calls, None, JList(<<>>))
  ELSE abort_after_extract(S, email, env, cat,
                           extract_step(S, cat.logs, email, env, cat.nlog))

\* process_email after step 1: cat is _categorize_email's result.
after_categorize(S, email, env, cat) ==
  IF cat.raised
  THEN RunResult("raise", S.emails, cat.logs, cat.tokens,
                 <<<<"get_email", "">>>> \o cat.calls, None, JList(<<>>))
  ELSE IF ~Truthy(cat.category)
  THEN RunResult("False", S.emails,
                 log_processing(cat.logs, email.id, "categorization", "failed",
                                (cat.nlog + 1) \in env.logFail),
                 cat.tokens,
                 <<<<"get_email", "">>>> \o cat.calls
                   \o <<<<"insert_log", "categorization">>>>,
                 cat.category, JList(<<>>))
  ELSE update_step(S, email.id, env, cat,
                   extract_step(S, cat.logs, email, env, cat.nlog))

\* A pipeline that logs the failed lookup of an unknown id.
after_fetch_logging_missing(S, env, e) ==
  IF e.raised
  THEN RunResult("raise", S.emails, S.logs, 0, <<<<"get_email", "">>>>, None, JList(<<>>))
  ELSE IF ~e.found
  THEN RunResult("False", S.emails,
                 log_processing(S.logs, e.email.id, "fetch", "failed", 1 \in env.logFail),
                 0, <<<<"get_email", "">>, <<"insert_log", "fetch">>>>, None, JList(<<>>))
  ELSE after_categorize(S, e.email, env, categorize_step(S, e.email, env))

\* process_email after the fetch: e is get_email's result.
after_fetch(S, env, e) ==
  IF e.raised
  THEN RunResult("raise", S.emails, S.logs, 0, <<<<"get_email", "">>>>, None, JList(<<>>))
  ELSE IF ~e.found
  THEN RunResult("False", S.emails, S.logs, 0, <<<<"get_email", "">>>>, None, JList(<<>>))
  ELSE after_categorize(S, e.email, env, categorize_step(S, e.email, env))

\* process_email: ret is "True", "False" or "raise" (an exception leaves it).
process_email(S, email_id, env) ==
  after_fetch(S, env, get_email(S.emails, email_id, "get_email" \in env.faults))

\* The results dictionary (errors as the ids the error strings name), with the
\* ids attempted, what each process_email call did ("True", "False", "raise")
\* and the ids a categorize call returned a category for.
NewResults(email_ids) ==
  [total |-> Len(email_ids), successful |-> 0, failed |-> 0, errors |-> <<>>,
   attempted |-> <<>>, rets |-> <<>>, categorized |-> {}]

RECURSIVE batch_process_emails(_, _, _, _, _, _)

\* A loop body whose except clause records the error without counting it.
batch_item_uncounted_raise(S, email_ids, envs, i, results, tokens, r) ==
  batch_process_emails([S EXCEPT !.emails = r.emails, !.logs = r.logs],
    email_ids, envs, i + 1,
    IF r.ret = "True"
    THEN [results EXCEPT !.successful = @ + 1, !.attempted = Append(@, email_ids[i]),
                         !.rets = Append(@, r.ret),
                         !.categorized = @ \cup {email_ids[i]}]
    ELSE [results EXCEPT !.failed = IF r.ret = "raise" THEN @ ELSE @ + 1,
                         !.errors = Append(@, email_ids[i]),
                         !.attempted = Append(@, email_ids[i]),
                         !.rets = Append(@, r.ret),
                         !.categorized = IF Truthy(r.category) THEN @ \cup {email_ids[i]}
                                         ELSE @],
    tokens + r.tokens)

\* A loop body without the except clause: an exception of process_email ends
\* the batch and leaves batch_process_emails.
batch_item_propagating(S, email_ids, envs, i, results, tokens, r) ==
  IF r.ret = "raise"
  THEN [ret |-> "raise",
        results |-> [results EXCEPT !.attempted = Append(@, email_ids[i]),
                                    !.rets = Append(@, r.ret)],
        emails |-> r.emails, logs |-> r.logs, tokens |-> tokens + r.tokens]
  ELSE batch_process_emails([S EXCEPT !.emails = r.emails, !.logs = r.logs],
         email_ids, envs, i + 1,
         IF r.ret = "True"
         THEN [results EXCEPT !.successful = @ + 1, !.attempted = Append(@, email_ids[i]),
                              !.rets = Append(@, r.ret),
                              !.categorized = @ \cup {email_ids[i]}]
         ELSE [results EXCEPT !.failed = @ + 1, !.errors = Append(@, email_ids[i]),
                              !.attempted = Append(@, email_ids[i]),
                              !.rets = Append(@, r.ret),
                              !.categorized = IF Truthy(r.category) THEN @ \cup {email_ids[i]}
                                              ELSE @],
         tokens + r.tokens)

\* The body of batch_process_emails' loop for item i: r is process_email's result.
batch_item(S, email_ids, envs, i, results, tokens, r) ==
  batch_process_emails([S EXCEPT !.emails = r.emails, !.logs = r.logs],
    email_ids, envs, i + 1,
    IF r.ret = "True"
    THEN [results EXCEPT !.successful = @ + 1, !.attempted = Append(@, email_ids[i]),
                         !.rets = Append(@, r.ret),
                         !.categorized = @ \cup {email_ids[i]}]
    ELSE [results EXCEPT !.failed = @ + 1, !.errors = Append(@, email_ids[i]),
                         !.attempted = Append(@, email_ids[i]),
                         !.rets = Append(@, r.ret),
                         !.categorized = IF Truthy(r.category) THEN @ \cup {email_ids[i]}
                                         ELSE @],
    tokens + r.tokens)

\* batch_process_emails from item i on: results is the dictionary it returns
\* (errors as the ids the error strings name), S the store as the items before
\* i left it, tokens what the model calls added so far.
batch_process_emails(S, email_ids, envs, i, results, tokens) ==
  IF i > Len(email_ids)
  THEN [ret |-> "dict", results |-> results, emails |-> S.emails, logs |-> S.logs,
        tokens |-> tokens]
  ELSE batch_item(S, email_ids, envs, i, results, tokens,
                  process_email(S, email_ids[i], envs[i]))

(***************************************************************************)
(* The agent (backend/agent_logic.py): handle_query and generate_draft,    *)
(* with answer_query / generate_reply of the provider clients.  A message  *)
(* is [role, content].  The clock (generated_at, created_at) is left out   *)
(* of the draft rows.                                                      *)
(***************************************************************************)
\* sep.join(parts), from part i on.
RECURSIVE join(_, _, _)
join(parts, sep, i) ==
  IF i > Len(parts) THEN <<>>
  ELSE (IF i > 1 THEN sep ELSE <<>>) \o parts[i] \o join(parts, sep, i + 1)

\* d.get(key, default) on a dict's pairs.
dictGet(pairs, key, default) ==
  IF \E i \in DOMAIN pairs : pairs[i][1] = key
  THEN pairs[CHOOSE i \in DOMAIN pairs : pairs[i][1] = key][2]
  ELSE default

\* str(v) inside an f-string, for the values the task texts take.
str(j) == IF j.t = "str" THEN j.v ELSE json_dumps(j)

Uncategorized == <<"U","n","c","a","t","e","g","o","r","i","z","e","d">>
NotAvailable  == <<"N","/","A">>
Unknown       == <<"U","n","k","n","o","w","n">>

\* email.category or default
category_or(category, default) == IF Truthy(category) THEN category ELSE default

\* _build_email_context: [raised, text]; item.get on an action item that is
\* not a dict raises AttributeError.
build_email_context(email) ==
  IF \E i \in DOMAIN email.action_items.v : email.action_items.v[i].t # "dict"
  THEN Raised
  ELSE Built(join(
         << <<"E","m","a","i","l"," ","I","D",":"," ">> \o intText(email.id),
            <<"F","r","o","m",":"," ">> \o email.sender,
            <<"S","u","b","j","e","c","t",":"," ">> \o email.subject,
            <<"D","a","t","e",":"," ">> \o intText(email.timestamp),
            <<"C","a","t","e","g","o","r","y",":"," ">> \o category_or(email.category, Uncategorized),
            <<"\n","C","o","n","t","e","n","t",":","\n">> \o email.body >>
         \o (IF email.action_items.v # <<>>
             THEN << <<"\n","A","c","t","i","o","n"," ","I","t","e","m","s",":"," ">> \o intText(Len(email.action_items.v)) >>
                  \o [i \in DOMAIN email.action_items.v |->
                        <<" "," ","-"," ">> \o str(dictGet(email.action_items.v[i].v, <<"t","a","s","k">>,
                                                 JStr(Unknown)))]
             ELSE <<>>),
         <<"\n">>, 1))

\* get_all_emails: the rows by descending timestamp (limit 100, above the
\* inputs), as Email objects.
RECURSIVE get_all_emails(_, _)
get_all_emails(emailsT, ids) ==
  IF ids = {} THEN <<>>
  ELSE LET m == CHOOSE i \in ids : \A j \in ids : emailsT[j].timestamp <= emailsT[i].timestamp
       IN  <<row_to_email(emailsT[m])>> \o get_all_emails(emailsT, ids \ {m})

\* The categories dictionary of _build_inbox_context after the emails from i on.
RECURSIVE count_categories(_, _, _)
count_categories(all_emails, i, categories) ==
  IF i > Len(all_emails) THEN categories
  ELSE count_categories(all_emails, i + 1,
         dictSet(categories, category_or(all_emails[i].category, Uncategorized),
                 dictGet(categories, category_or(all_emails[i].category, Uncategorized), 0) + 1))

RECURSIVE count_actions(_, _)
count_actions(all_emails, i) ==
  IF i > Len(all_emails) THEN 0
  ELSE Len(all_emails[i].action_items.v) + count_actions(all_emails, i + 1)

InboxEmpty == <<"I","n","b","o","x"," ","i","s"," ","e","m","p","t","y",".">>

\* _build_inbox_context on get_all_emails' result.
inbox_context(all_emails, categories) ==
  IF all_emails = <<>> THEN InboxEmpty
  ELSE join(
         << <<"T","o","t","a","l"," ","E","m","a","i","l","s",":"," ">> \o intText(Len(all_emails)),
            <<"C","a","t","e","g","o","r","i","e","s",":"," ">>
              \o join([i \in DOMAIN categories |->
                         categories[i][1] \o <<":"," ">> \o intText(categories[i][2])],
                      <<","," ">>, 1),
            <<"T","o","t","a","l"," ","A","c","t","i","o","n"," ","I","t","e","m","s",":"," ">> \o intText(count_actions(all_emails, 1)),
            <<"\n","R","e","c","e","n","t"," ","E","m","a","i","l","s",":">> >>
         \o [i \in 1..(IF Len(all_emails) < 5 THEN Len(all_emails) ELSE 5) |->
               <<" "," ","-"," ","[">> \o category_or(all_emails[i].category, NotAvailable) \o <<"]"," ">>
                 \o all_emails[i].subject \o <<" ","f","r","o","m"," ">> \o all_emails[i].sender],
         <<"\n">>, 1)

all_counted(all_emails) == inbox_context(all_emails, count_categories(all_emails, 1, <<>>))

build_inbox_context(emailsT) == all_counted(get_all_emails(emailsT, DOMAIN emailsT))

inbox_keywords ==
  { <<"s","h","o","w">>, <<"l","i","s","t">>, <<"u","r","g","e","n","t">>, <<"i","m","p","o","r","t","a","n","t">>, <<"a","l","l">>,
    <<"h","o","w"," ","m","a","n","y">>, <<"w","h","a","t">>, <<"t","a","s","k","s">>, <<"e","m","a","i","l","s"," ","f","r","o","m">> }

\* _is_inbox_query
is_inbox_query(query) == \E keyword \in inbox_keywords : contains(keyword, lower(query))

MAX_CONVERSATION_HISTORY == 5

\* history[:n], the oldest n turns.
last_n_oldest(history, n) ==
  IF Len(history) <= n THEN history ELSE SubSeq(history, 1, n)

\* history[-n:]
last_n(history, n) ==
  IF Len(history) <= n THEN history ELSE SubSeq(history, Len(history) - n + 1, Len(history))

Message(role, content) == [role |-> role, content |-> content]

AnswerSystem ==
  <<"Y","o","u"," ","a","r","e"," ","a","n"," ","i","n","t","e","l","l","i","g","e","n","t"," ","e","m","a","i","l"," ","p","r","o","d","u","c","t","i","v","i","t","y"," ","a","s","s","i","s","t","a","n","t","."," ">>
    \o <<"H","e","l","p"," ","u","s","e","r","s"," ","m","a","n","a","g","e"," ","t","h","e","i","r"," ","i","n","b","o","x",","," ","u","n","d","e","r","s","t","a","n","d"," ","e","m","a","i","l","s",","," ","a","n","d"," ","d","r","a","f","t"," ","r","e","s","p","o","n","s","e","s","."," ">>
    \o <<"B","e"," ","c","o","n","c","i","s","e",","," ","h","e","l","p","f","u","l",","," ","a","n","d"," ","p","r","o","f","e","s","s","i","o","n","a","l","."," ">>
    \o <<"I","f"," ","y","o","u"," ","r","e","f","e","r","e","n","c","e"," ","s","p","e","c","i","f","i","c"," ","e","m","a","i","l","s",","," ","c","i","t","e"," ","t","h","e","m"," ","c","l","e","a","r","l","y",".">>

\* The messages answer_query sends (prompt_context is never passed).
answer_messages(query, email_context, conversation_history) ==
  <<Message("system", AnswerSystem)>>
    \o last_n(conversation_history, MAX_CONVERSATION_HISTORY)
    \o <<Message("user",
                 IF Truthy(email_context)
                 THEN <<"E","m","a","i","l"," ","C","o","n","t","e","x","t",":","\n">> \o email_context
                        \o <<"\n","\n","U","s","e","r"," ","Q","u","e","r","y",":"," ">> \o query
                 ELSE query)>>

\* answer_query of either provider: [result, tokens, requests, messages].
answer_query(provider, query, email_context, conversation_history, script) ==
  [result |-> call_llm(provider, script).result,
   tokens |-> call_llm(provider, script).tokens,
   requests |-> call_llm(provider, script).attempts,
   messages |-> answer_messages(query, email_context, conversation_history)]

Apology ==
  <<"I"," ","a","p","o","l","o","g","i","z","e",","," ","b","u","t"," ","I","'","m"," ","h","a","v","i","n","g"," ","t","r","o","u","b","l","e"," ","p","r","o","c","e","s","s","i","n","g"," ","y","o","u","r"," ","r","e","q","u","e","s","t","."," ","P","l","e","a","s","e"," ","t","r","y"," ","a","g","a","i","n",".">>

QueryResult(raised, response, tokens, email_context, messages, requests) ==
  [raised |-> raised, response |-> response, tokens |-> tokens,
   email_context |-> email_context, messages |-> messages, requests |-> requests]

\* The end of handle_query: a is answer_query's result.
query_response(email_context, a) ==
  QueryResult(FALSE, IF Truthy(a.result) THEN a.result ELSE Apology, a.tokens,
              email_context, a.messages, a.requests)

\* handle_query answering an empty inbox itself, without the answer call.
query_answer_short_circuit(S, user_query, c, messages, script) ==
  IF c.raised THEN QueryResult(TRUE, None, 0, None, <<>>, 0)
  ELSE IF c.text = InboxEmpty THEN QueryResult(FALSE, InboxEmpty, 0, c.text, <<>>, 0)
  ELSE query_response(c.text, answer_query(S.provider, user_query, c.text, messages, script))

\* handle_query after the context was gathered: c is [raised, text].
query_answer(S, user_query, c, messages, script) ==
  IF c.raised THEN QueryResult(TRUE, None, 0, None, <<>>, 0)
  ELSE query_response(c.text, answer_query(S.provider, user_query, c.text, messages, script))

\* The context handle_query gathers: [raised, text], text = None for no context.
\* selected_email_id = 0 stands for None as well (both are falsy).
query_context(S, user_query, selected_email_id, e) ==
  IF selected_email_id # 0
  THEN (IF e.found THEN build_email_context(e.email) ELSE Built(None))
  ELSE IF is_inbox_query(user_query) THEN Built(build_inbox_context(S.emails))
  ELSE Built(None)

\* The caller's conversation_history list after handle_query: the call only
\* takes the slice [-5:] of it and reads the slice in a comprehension; both
\* build new lists, and the provider client extends its own list.
history_after_query(conversation_history) == conversation_history

\* handle_query: [raised, response, tokens, email_context, messages, requests].
handle_query(S, user_query, selected_email_id, conversation_history, script) ==
  query_answer(S, user_query,
               query_context(S, user_query, selected_email_id,
                             get_email(S.emails, selected_email_id, FALSE)),
               last_n(conversation_history, 5), script)

\* generate_reply of either provider: [raised, result, tokens, prompt].
generate_reply(provider, content, reply_prompt, user_instruction, script) ==
  IF build_prompt(provider, reply_prompt, content).raised
  THEN [raised |-> TRUE, result |-> None, tokens |-> 0, prompt |-> <<>>]
  ELSE [raised |-> FALSE,
        result |-> call_llm(provider, script).result,
        tokens |-> call_llm(provider, script).tokens,
        prompt |-> build_prompt(provider, reply_prompt, content).text
                     \o (IF Truthy(user_instruction)
                         THEN <<"\n","\n","A","d","d","i","t","i","o","n","a","l"," ","I","n","s","t","r","u","c","t","i","o","n","s",":"," ">> \o user_instruction
                         ELSE <<>>)]

\* insert_draft: [raised, table]; the new row takes the next AUTOINCREMENT id.
insert_draft(draftsT, draft, fault) ==
  get_connection(draftsT,
                 IF fault = "execute" THEN draftsT
                 ELSE Append(draftsT, [draft EXCEPT !.id = Len(draftsT) + 1]),
                 fault = "execute", fault = "commit")

json_or_null(text) == IF text = None THEN JLit(<<"n","u","l","l">>) ELSE JStr(text)

\* The Draft generate_draft builds, as its row (metadata as metadata_json).
Draft(email, reply_body, user_instruction) ==
  [id |-> 0, email_id |-> email.id,
   subject |-> <<"R","e",":"," ">> \o email.subject,
   body |-> reply_body,
   metadata_json |-> json_dumps(JDict(
     << << <<"o","r","i","g","i","n","a","l","_","s","e","n","d","e","r">>, JStr(email.sender) >>,
        << <<"o","r","i","g","i","n","a","l","_","s","u","b","j","e","c","t">>, JStr(email.subject) >>,
        << <<"u","s","e","r","_","i","n","s","t","r","u","c","t","i","o","n">>, json_or_null(user_instruction) >>,
        << <<"p","r","o","m","p","t","_","u","s","e","d">>, JStr(<<"a","u","t","o","_","r","e","p","l","y">>) >> >>))]

DraftResult(raised, saved, draftsT, tokens, reply_body) ==
  [raised |-> raised, saved |-> saved, drafts |-> draftsT, tokens |-> tokens,
   reply_body |-> reply_body]

\* The end of generate_draft: d is insert_draft's result, caught when it raises.
draft_saved(draftsT, tokens, reply_body, d) ==
  DraftResult(FALSE, ~d.raised, d.table, tokens, reply_body)

\* generate_draft after the model call: r is generate_reply's result.
draft_reply(draftsT, email, user_instruction, fault, r) ==
  IF r.raised THEN DraftResult(TRUE, FALSE, draftsT, 0, None)
  ELSE IF ~Truthy(r.result) THEN DraftResult(FALSE, FALSE, draftsT, r.tokens, r.result)
  ELSE draft_saved(draftsT, r.tokens, r.result,
                   insert_draft(draftsT, Draft(email, r.result, user_instruction), fault))

\* generate_draft after the lookups: e, prompt_obj are get_email's and get_prompt's results.
draft_lookup(S, draftsT, user_instruction, script, fault, e, prompt_obj) ==
  IF ~e.found THEN DraftResult(FALSE, FALSE, draftsT, 0, None)
  ELSE IF prompt_obj.prompt_text = None THEN DraftResult(FALSE, FALSE, draftsT, 0, None)
  ELSE draft_reply(draftsT, e.email, user_instruction, fault,
                   generate_reply(S.provider, email_content(e.email), prompt_obj.prompt_text,
                                  user_instruction, script))

\* generate_draft: [raised, saved, drafts, tokens]; saved = TRUE when it returns
\* the Draft (the last row of drafts), FALSE when it returns None.
generate_draft(S, draftsT, email_id, user_instruction, script, fault) ==
  draft_lookup(S, draftsT, user_instruction, script, fault,
               get_email(S.emails, email_id, FALSE),
               get_prompt(S.prompts, "auto_reply", FALSE))

\* A run inside a batch meets one of these.
BatchEnvs ==
  { Env(CatOk, ActOk, {}, {}),
    Env(CHOOSE s \in CatScripts : s[1].kind = "rate", ActOk, {}, {}),
    Env(CatOk, ActOk, {"update_execute"}, {}),
    Env(CatOk, ActOk, {"get_email"}, {}) }

\* The id lists batch_process_emails is called with.
BatchIds == { <<>>, <<1>>, <<1, 2>>, <<2, 1>>, <<1, 1>> }

\* Agent inputs: queries, histories, instructions, backend behaviours.
Queries == { <<"S","h","o","w"," ","A","L","L">>, <<"h","i">> }

Turn(n) == Message(IF n % 2 = 1 THEN "user" ELSE "assistant", intText(n))

Histories == { <<>>, [n \in 1..3 |-> Turn(n)], [n \in 1..6 |-> Turn(n)] }

Instructions == { None, <<"B","e"," ","b","r","i","e","f">> }

ReplyScripts ==
  { <<Ok(<<"T","h","a","n","k","s",".">>), Fail("other"), Fail("other")>>,
    <<Ok(<<>>), Fail("other"), Fail("other")>>,
    <<Fail("error"), Fail("error"), Fail("error")>> }

AnswerScripts ==
  { <<Ok(<<"Y","o","u"," ","h","a","v","e"," ","m","a","i","l",".">>), Fail("other"), Fail("other")>>,
    <<Ok(<<>>), Fail("other"), Fail("other")>>,
    <<Fail("other"), Fail("other"), Fail("other")>> }

(***************************************************************************)
(* Operations step by step.  An operation in progress is at one store      *)
(* operation or model call (pc) of its code; a store operation is a        *)
(* transaction of its own connection (get_connection: connect, the         *)
(* statements, commit, close) and a model call is a request and its        *)
(* response.  txn is the store operation whose connection the operation    *)
(* holds, inflight whether it waits for the backend.                       *)
(***************************************************************************)
StoreReads ==
  {"get_email", "get_all_emails", "get_prompt_cat", "get_prompt_act", "get_prompt_reply"}
StoreWrites ==
  {"log_categorization", "log_no_category", "log_extraction", "update_email", "log_complete",
   "insert_draft"}
ModelCalls == {"categorize", "extract", "answer", "generate_reply"}

\* No operation in progress.
NoRuns == [proc |-> <<>>, applied |-> <<>>]

\* The first store operation or model call of an operation.
first_step(kind, email_id, query) ==
  IF kind = "handle_query"
  THEN (IF email_id # 0 THEN "get_email"
        ELSE IF is_inbox_query(query) THEN "get_all_emails" ELSE "answer")
  ELSE "get_email"

\* An operation as it is called.
NewRun(kind, email_id, query) ==
  [kind |-> kind, email_id |-> email_id, query |-> query,
   pc |-> first_step(kind, email_id, query), phase |-> "ready",
   txn |-> "none", inflight |-> FALSE,
   found |-> FALSE, template |-> None, category |-> None, action_items |-> JList(<<>>),
   reply |-> None, ret |-> "running"]

\* process_email: the step after the one at r.pc, which left r as it is.
process_email_next(r) ==
  CASE r.pc = "get_email" -> IF r.found THEN "get_prompt_cat" ELSE "done"
    [] r.pc = "get_prompt_cat" ->
         IF r.template = None THEN "log_no_category" ELSE "categorize"
    [] r.pc = "categorize" -> "log_categorization"
    [] r.pc = "log_categorization" ->
         IF Truthy(r.category) THEN "get_prompt_act" ELSE "log_no_category"
    [] r.pc = "log_no_category" -> "done"
    [] r.pc = "get_prompt_act" -> IF r.template = None THEN "update_email" ELSE "extract"
    [] r.pc = "extract" -> "log_extraction"
    [] r.pc = "log_extraction" -> "update_email"
    [] r.pc = "update_email" -> "log_complete"
    [] OTHER -> "done"

\* generate_draft: the step after the one at r.pc.
generate_draft_next(r) ==
  CASE r.pc = "get_email" -> IF r.found THEN "get_prompt_reply" ELSE "done"
    [] r.pc = "get_prompt_reply" -> IF r.template = None THEN "done" ELSE "generate_reply"
    [] r.pc = "generate_reply" -> IF Truthy(r.reply) THEN "insert_draft" ELSE "done"
    [] OTHER -> "done"

\* handle_query: the context lookup, then the answer call.
handle_query_next(r) == IF r.pc = "answer" THEN "done" ELSE "answer"

next_step(r) ==
  IF r.kind = "process_email" THEN process_email_next(r)
  ELSE IF r.kind = "generate_draft" THEN generate_draft_next(r)
  ELSE handle_query_next(r)

\* What the operation returns when the step at r.pc was its last.
returned(r) ==
  IF r.kind = "process_email" THEN (IF r.pc = "log_complete" THEN "True" ELSE "False")
  ELSE IF r.kind = "generate_draft" THEN (IF r.pc = "insert_draft" THEN "Draft" ELSE "None")
  ELSE "str"

\* r after its step: at the next one, or returned.
advance(r) ==
  [r EXCEPT !.pc = next_step(r), !.phase = "ready",
            !.ret = IF next_step(r) = "done" THEN returned(r) ELSE @]

\* A connection that stays open after a read.
release_keeping_reads_open(op, txn) == IF op \in StoreReads THEN txn ELSE "none"

\* get_connection's finally: the connection is closed when the block is left.
release(op, txn) == "none"

(***************************************************************************)
(* State.                                                                  *)
(***************************************************************************)
VARIABLES
  emails,             \* emails table: id -> row, for the ids present
  prompts,            \* prompts table: prompt_type -> prompt_text or None
  drafts,             \* drafts table, in insertion order
  logs,               \* processing_logs table, in insertion order
  provider,           \* config.LLM_PROVIDER, fixed at construction
  total_tokens_used,  \* the provider client's usage counter (tenths)
  last,               \* history: the operation just completed and what it did
  categorized,        \* history: ids for which a categorize call returned a category
  nruns,              \* history: pipeline runs and agent operations so far
  configured_retries, \* config.MAX_RETRIES, fixed at construction
  service,            \* UnifiedLLMService.service: the provider client, or NoService
  prompt_rows,        \* prompts table row by row: [rows, seq], seq the AUTOINCREMENT counter
  runs                \* operations in progress side by side: [proc, applied]

vars == <<emails, prompts, drafts, logs, provider, total_tokens_used, last, categorized, nruns,
          configured_retries, service, prompt_rows, runs>>

\* Pipeline runs (batch items included) and agent operations in a behaviour.
MaxRuns == 2

Store == [emails |-> emails, prompts |-> prompts, logs |-> logs, provider |-> provider]

NoLast ==
  [op |-> "none", email_id |-> 0, email_ids |-> <<>>, ret |-> "None", calls |-> <<>>,
   category |-> None, action_items |-> JList(<<>>), faults |-> {}, logFail |-> {},
   pre_emails |-> <<>>, pre_logs |-> <<>>, pre_drafts |-> <<>>, pre_tokens |-> 0,
   results |-> NewResults(<<>>), response |-> None, email_context |-> None,
   outcomes |-> <<>>, client |-> CallResult(None, 0, <<>>, 0),
   probe |-> "none", warned |-> FALSE,
   template |-> <<>>, raw |-> None, prompt |-> Built(<<>>), instruction |-> None,
   query |-> <<>>, history |-> <<>>, messages |-> <<>>, processed |-> NoneBool,
   pre_prompt |-> None, history_after |-> <<>>]

\* What every operation records before it acts.
Began(op) ==
  [NoLast EXCEPT !.op = op, !.pre_emails = emails, !.pre_logs = logs, !.pre_drafts = drafts,
                 !.pre_tokens = total_tokens_used]

Init ==
  /\ emails = <<>>
  /\ prompts = [t \in PromptTypes |-> None]
  /\ drafts = <<>>
  /\ logs = <<>>
  /\ provider \in Providers
  /\ total_tokens_used = 0
  /\ last = NoLast
  /\ categorized = {}
  /\ nruns = 0
  /\ configured_retries = MAX_RETRIES
  /\ service = unified_init(provider, TRUE).service
  /\ prompt_rows = NoPromptRows
  /\ runs = NoRuns

\* Ingestion (load_mock_inbox -> insert_email) of an unprocessed email; a
\* duplicate id violates the primary key and is skipped.
InsertEmail ==
  \E id \in EmailIds :
    /\ id \notin DOMAIN emails
    /\ emails' = emails @@ (id :> email_to_row(NewEmail(id, Sender, Subject, Body, id)))
    /\ last' = [Began("insert_email") EXCEPT !.email_id = id]
    /\ UNCHANGED <<runs, prompt_rows, prompts, drafts, logs, provider, total_tokens_used, categorized, nruns,
                 configured_retries, service>>

\* insert_prompt (INSERT OR REPLACE on the unique prompt_type, is_active = 1).
InsertPrompt ==
  \E t \in PromptTypes :
   \E text \in TemplatesOf[t] :
    /\ prompts[t] # text
    /\ prompts' = [prompts EXCEPT ![t] = text]
    /\ last' = Began("insert_prompt")
    /\ UNCHANGED <<runs, prompt_rows, emails, drafts, logs, provider, total_tokens_used, categorized, nruns,
                 configured_retries, service>>

\* The effect of a process_email(email_id) call with result r.
ApplyRun(email_id, env, r) ==
  /\ emails' = r.emails
  /\ logs' = r.logs
  /\ total_tokens_used' = total_tokens_used + r.tokens
  /\ last' = [Began("process_email") EXCEPT
                !.email_id = email_id, !.ret = r.ret, !.calls = r.calls,
                !.category = r.category, !.action_items = r.action_items,
                !.faults = env.faults, !.logFail = env.logFail]
  /\ categorized' = IF Truthy(r.category) THEN categorized \cup {email_id} ELSE categorized

\* One process_email(email_id) call.
ProcessEmail ==
  \E email_id \in RunIds, env \in Envs :
    /\ nruns < MaxRuns
    /\ ApplyRun(email_id, env, process_email(Store, email_id, env))
    /\ nruns' = nruns + 1
    /\ UNCHANGED <<runs, prompt_rows, prompts, drafts, provider, configured_retries, service>>

\* The effect of a batch_process_emails(email_ids) call with result b.
ApplyBatch(email_ids, b) ==
  /\ emails' = b.emails
  /\ logs' = b.logs
  /\ total_tokens_used' = total_tokens_used + b.tokens
  /\ last' = [Began("batch_process_emails") EXCEPT
                !.email_ids = email_ids, !.ret = b.ret, !.results = b.results]
  /\ categorized' = categorized \cup b.results.categorized

\* One batch_process_emails(email_ids) call.
BatchProcess ==
  \E email_ids \in BatchIds :
    \E envs \in [1..Len(email_ids) -> BatchEnvs] :
      /\ nruns + Len(email_ids) <= MaxRuns
      /\ ApplyBatch(email_ids,
                    batch_process_emails(Store, email_ids, envs, 1, NewResults(email_ids), 0))
      /\ nruns' = nruns + Len(email_ids)
      /\ UNCHANGED <<runs, prompt_rows, prompts, drafts, provider, configured_retries, service>>

\* The effect of a generate_draft(email_id, user_instruction) call with result r.
ApplyDraft(email_id, user_instruction, fault, r) ==
  /\ drafts' = r.drafts
  /\ total_tokens_used' = total_tokens_used + r.tokens
  /\ last' = [Began("generate_draft") EXCEPT
                !.email_id = email_id, !.instruction = user_instruction,
                !.faults = IF fault = "none" THEN {} ELSE {"insert_draft"},
                !.response = r.reply_body,
                !.ret = IF r.raised THEN "raise" ELSE IF r.saved THEN "Draft" ELSE "None"]

\* One generate_draft call.
GenerateDraft ==
  \E email_id \in RunIds, user_instruction \in Instructions,
     script \in ReplyScripts, fault \in {"none", "execute"} :
    /\ nruns < MaxRuns
    /\ ApplyDraft(email_id, user_instruction, fault,
                  generate_draft(Store, drafts, email_id, user_instruction, script, fault))
    /\ nruns' = nruns + 1
    /\ UNCHANGED <<runs, prompt_rows, emails, prompts, logs, provider, categorized, configured_retries, service>>

\* The effect of a handle_query call with result r.
ApplyQuery(user_query, selected_email_id, conversation_history, script, r) ==
  /\ total_tokens_used' = total_tokens_used + r.tokens
  /\ last' = [Began("handle_query") EXCEPT
                !.email_id = selected_email_id, !.query = user_query,
                !.history = conversation_history,
                !.history_after = history_after_query(conversation_history),
                !.messages = r.messages,
                !.outcomes = SubSeq(script, 1, r.requests),
                !.ret = IF r.raised THEN "raise" ELSE "str",
                !.response = r.response, !.email_context = r.email_context]

\* One handle_query call.
HandleQuery ==
  \E user_query \in Queries, selected_email_id \in {0} \cup RunIds,
     conversation_history \in Histories, script \in AnswerScripts :
    /\ nruns < MaxRuns
    /\ ApplyQuery(user_query, selected_email_id, conversation_history, script,
                  handle_query(Store, user_query, selected_email_id,
                               conversation_history, script))
    /\ nruns' = nruns + 1
    /\ UNCHANGED <<runs, prompt_rows, emails, prompts, drafts, logs, provider, categorized, configured_retries, service>>

Next ==
  \/ InsertEmail
  \/ InsertPrompt
  \/ ProcessEmail
  \/ BatchProcess
  \/ GenerateDraft
  \/ HandleQuery

Spec == Init /\ [][Next]_vars

(***************************************************************************)
(* The pipeline over a store whose lookups may fail as well.               *)
(***************************************************************************)
\* One process_email(email_id) call, the store failing on any operation.
ProcessEmailFaulty ==
  \E email_id \in RunIds, env \in FaultEnvs :
    /\ nruns < MaxRuns
    /\ ApplyRun(email_id, env, process_email(Store, email_id, env))
    /\ nruns' = nruns + 1
    /\ UNCHANGED <<runs, prompt_rows, prompts, drafts, provider, configured_retries, service>>

NextFaults ==
  \/ InsertEmail
  \/ InsertPrompt
  \/ ProcessEmailFaulty

SpecFaults == Init /\ [][NextFaults]_vars

(***************************************************************************)
(* Draft generation over every reply template the configuration surface    *)
(* can write.                                                              *)
(***************************************************************************)
\* insert_prompt of an auto_reply template, with or without braces of its own.
InsertReplyPrompt ==
  \E text \in PromptTexts :
    /\ prompts["auto_reply"] # text
    /\ prompts' = [prompts EXCEPT !["auto_reply"] = text]
    /\ last' = Began("insert_prompt")
    /\ UNCHANGED <<runs, prompt_rows, emails, drafts, logs, provider, total_tokens_used, categorized, nruns,
                 configured_retries, service>>

NextDraft ==
  \/ InsertEmail
  \/ InsertReplyPrompt
  \/ GenerateDraft

SpecDraft == Init /\ [][NextDraft]_vars

(***************************************************************************)
(* The store on its own (backend/database.py): template writes on the      *)
(* prompts table row by row, and update_email with every combination of    *)
(* passed and omitted fields.  `prompts` is the lookup view of the table   *)
(* the other specifications work on.                                       *)
(***************************************************************************)
\* Template writes in a behaviour.
MaxWrites == 3

UpdateCategories == {None, <<>>, <<"S","p","a","m">>}
UpdateTasks ==
  {NoneList, JList(<<>>),
   JList(<<JDict(<< << <<"t","a","s","k">>, JStr(<<"R">>) >> >>)>>)}
UpdateFlags == {NoneBool, "True", "False"}

\* insert_email of an unprocessed email under one of two ids.
StoreEmail ==
  \E id \in RunIds :
    /\ id \notin DOMAIN emails
    /\ emails' = emails @@ (id :> email_to_row(NewEmail(id, Sender, Subject, Body, id)))
    /\ last' = [Began("insert_email") EXCEPT !.email_id = id]
    /\ UNCHANGED <<runs, prompt_rows, prompts, drafts, logs, provider, total_tokens_used, categorized,
                   nruns, configured_retries, service>>

\* insert_prompt as the prompt editor and the initializer call it
\* (is_active=True), then the lookup view of the written purpose.
WritePrompt ==
  \E t \in PromptTypes, text \in PromptTexts :
    /\ prompt_rows.seq < MaxWrites
    /\ prompt_rows' = insert_prompt(prompt_rows, Prompt(t, text, TRUE))
    /\ prompts' = [prompts EXCEPT ![t] = text]
    /\ last' = [Began("insert_prompt") EXCEPT
                  !.template = text, !.calls = <<<<"insert_prompt", t>>>>,
                  !.pre_prompt = prompts[t]]
    /\ UNCHANGED <<runs, emails, drafts, logs, provider, total_tokens_used, categorized, nruns,
                   configured_retries, service>>

\* update_email(email_id, category, action_items, processed) on a working store.
UpdateEmail ==
  \E email_id \in RunIds, category \in UpdateCategories, action_items \in UpdateTasks,
     processed \in UpdateFlags :
    /\ nruns < MaxRuns
    /\ emails' = update_email(emails, email_id, category, action_items, processed, "none").table
    /\ last' = [Began("update_email") EXCEPT
                  !.email_id = email_id, !.category = category,
                  !.action_items = action_items, !.processed = processed]
    /\ nruns' = nruns + 1
    /\ UNCHANGED <<runs, prompt_rows, prompts, drafts, logs, provider, total_tokens_used, categorized,
                   configured_retries, service>>

NextPrompts == WritePrompt

SpecPrompts == Init /\ [][NextPrompts]_vars

NextStore ==
  \/ StoreEmail
  \/ UpdateEmail

SpecStore == Init /\ [][NextStore]_vars

(***************************************************************************)
(* The core operations on an inbox of two ingested emails.                 *)
(***************************************************************************)
InitFrame ==
  /\ emails = [id \in RunIds |-> email_to_row(NewEmail(id, Sender, Subject, Body, id))]
  /\ prompts \in {[t \in PromptTypes |-> PlainTemplate], [t \in PromptTypes |-> None]}
  /\ drafts = <<>>
  /\ logs = <<>>
  /\ provider \in Providers
  /\ total_tokens_used = 0
  /\ last = NoLast
  /\ categorized = {}
  /\ nruns = 0
  /\ configured_retries = MAX_RETRIES
  /\ service = unified_init(provider, TRUE).service
  /\ prompt_rows = NoPromptRows
  /\ runs = NoRuns

NextFrame ==
  \/ ProcessEmail
  \/ BatchProcess
  \/ GenerateDraft
  \/ HandleQuery

SpecFrame == InitFrame /\ [][NextFrame]_vars

(***************************************************************************)
(* Two operations side by side on one store, interleaved at the store      *)
(* operations and model calls.  A writing transaction waits while another  *)
(* connection writes (the database lock).                                  *)
(***************************************************************************)
Procs == {1, 2}

\* The operations that can be in progress: process_email(1), generate_draft(1),
\* handle_query with and without a focused email and a keyword.
Operations ==
  {NewRun("process_email", 1, <<>>), NewRun("generate_draft", 1, <<>>)}
    \cup {NewRun("handle_query", id, q) : id \in {0, 1}, q \in Queries}

\* The backend's behaviour towards each of the two: what they are answered
\* differs, so that what is stored tells which of them wrote it.
ConcCat ==
  << {CatOk, CatFail},
     {CHOOSE c \in CatScripts : c[1].kind = "timeout"} >>
ConcAct ==
  << {ActOk},
     {a \in ActScripts : a[1].kind = "ok" /\ Len(a[1].text) \in {2, 3}} >>

\* A store with email 1 ingested and the templates written, the extraction
\* template possibly missing; two operations were just called.
InitConcurrent ==
  /\ emails = (1 :> email_to_row(NewEmail(1, Sender, Subject, Body, 1)))
  /\ prompts \in {[t \in PromptTypes |-> PlainTemplate],
                   [t \in PromptTypes |-> IF t = "action_extraction" THEN None
                                           ELSE PlainTemplate]}
  /\ drafts = <<>>
  /\ logs = <<>>
  /\ provider = "ollama"
  /\ total_tokens_used = 0
  /\ last = NoLast
  /\ categorized = {}
  /\ nruns = 0
  /\ configured_retries = MAX_RETRIES
  /\ service = unified_init(provider, TRUE).service
  /\ prompt_rows = NoPromptRows
  /\ runs \in {[proc |-> <<a, b>>, applied |-> <<>>] : a \in Operations, b \in Operations}

Running(p) == runs.proc[p]

\* The store after the transaction of r's step: [emails, logs, drafts].
committed(r) ==
  [emails |-> IF r.pc = "update_email"
              THEN update_email(emails, r.email_id, r.category, r.action_items, "True",
                                "none").table
              ELSE emails,
   logs |-> IF r.pc = "log_categorization"
            THEN log_processing(logs, r.email_id, "categorization",
                                IF Truthy(r.category) THEN "success" ELSE "failed", FALSE)
            ELSE IF r.pc = "log_no_category"
            THEN log_processing(logs, r.email_id, "categorization", "failed", FALSE)
            ELSE IF r.pc = "log_extraction"
            THEN log_processing(logs, r.email_id, "action_extraction", "success", FALSE)
            ELSE IF r.pc = "log_complete"
            THEN log_processing(logs, r.email_id, "complete_processing", "success", FALSE)
            ELSE logs,
   drafts |-> IF r.pc = "insert_draft"
              THEN insert_draft(drafts,
                                Draft(get_email(emails, r.email_id, FALSE).email, r.reply, None),
                                "none").table
              ELSE drafts]

\* What the operation knows after the transaction of its step.
fetched(r) ==
  [r EXCEPT
     !.found = IF r.pc = "get_email" THEN get_email(emails, r.email_id, FALSE).found ELSE @,
     !.template =
        IF r.pc = "get_prompt_cat" THEN get_prompt(prompts, "categorization", FALSE).prompt_text
        ELSE IF r.pc = "get_prompt_act"
        THEN get_prompt(prompts, "action_extraction", FALSE).prompt_text
        ELSE IF r.pc = "get_prompt_reply"
        THEN get_prompt(prompts, "auto_reply", FALSE).prompt_text
        ELSE @]

\* The connection of a store operation is opened.
BeginTransaction ==
  \E p \in Procs :
    /\ Running(p).phase = "ready"
    /\ Running(p).pc \in StoreReads \cup StoreWrites
    /\ Running(p).pc \in StoreWrites =>
         \A q \in Procs \ {p} : Running(q).txn \notin StoreWrites
    /\ runs' = [runs EXCEPT !.proc[p].phase = "busy", !.proc[p].txn = Running(p).pc]
    /\ UNCHANGED <<emails, prompts, drafts, logs, provider, total_tokens_used, last,
                   categorized, nruns, configured_retries, service, prompt_rows>>

\* The statements of the store operation run, the transaction is committed
\* and the connection is closed.
CommitTransaction ==
  \E p \in Procs :
    /\ Running(p).phase = "busy"
    /\ Running(p).pc \in StoreReads \cup StoreWrites
    /\ emails' = committed(Running(p)).emails
    /\ logs' = committed(Running(p)).logs
    /\ drafts' = committed(Running(p)).drafts
    /\ runs' = [proc |-> [runs.proc EXCEPT
                            ![p] = advance([fetched(Running(p)) EXCEPT
                                              !.txn = release(Running(p).pc, @)])],
                applied |-> IF Running(p).pc = "update_email"
                            THEN Append(runs.applied, p) ELSE runs.applied]
    /\ UNCHANGED <<prompts, provider, total_tokens_used, last, categorized, nruns,
                   configured_retries, service, prompt_rows>>

\* The request of a model call is sent.
SendRequest ==
  \E p \in Procs :
    /\ Running(p).phase = "ready"
    /\ Running(p).pc \in ModelCalls
    /\ runs' = [runs EXCEPT !.proc[p].phase = "busy", !.proc[p].inflight = TRUE]
    /\ UNCHANGED <<emails, prompts, drafts, logs, provider, total_tokens_used, last,
                   categorized, nruns, configured_retries, service, prompt_rows>>

\* What the operation holds after the model call of its step, answered as
\* the scripts say.
answered(r, cat, act, text) ==
  [r EXCEPT
     !.inflight = FALSE,
     !.category = IF r.pc = "categorize"
                  THEN categorize_memo[provider, email_content(NewEmail(1, Sender, Subject, Body, 1)),
                                       r.template, cat].result
                  ELSE @,
     !.action_items = IF r.pc = "extract"
                      THEN JList(extract_memo[provider,
                                              email_content(NewEmail(1, Sender, Subject, Body, 1)),
                                              r.template, act].result)
                      ELSE @,
     !.reply = IF r.pc = "generate_reply" THEN call_llm(provider, text).result ELSE @]

\* What the model call of r's step adds to the usage counter.
charged(r, cat, act, text) ==
  IF r.pc = "categorize"
  THEN categorize_memo[provider, email_content(NewEmail(1, Sender, Subject, Body, 1)),
                       r.template, cat].tokens
  ELSE IF r.pc = "extract"
  THEN extract_memo[provider, email_content(NewEmail(1, Sender, Subject, Body, 1)),
                    r.template, act].tokens
  ELSE call_llm(provider, text).tokens

\* The model call returns.
ReceiveResponse ==
  \E p \in Procs :
   \E cat \in ConcCat[p], act \in ConcAct[p], text \in ReplyScripts :
    /\ Running(p).phase = "busy"
    /\ Running(p).pc \in ModelCalls
    /\ runs' = [runs EXCEPT !.proc[p] = advance(answered(Running(p), cat, act, text))]
    /\ total_tokens_used' = total_tokens_used + charged(Running(p), cat, act, text)
    /\ UNCHANGED <<emails, prompts, drafts, logs, provider, last,
                   categorized, nruns, configured_retries, service, prompt_rows>>

NextConcurrent ==
  \/ BeginTransaction
  \/ CommitTransaction
  \/ SendRequest
  \/ ReceiveResponse

SpecConcurrent == InitConcurrent /\ [][NextConcurrent]_vars

(***************************************************************************)
(* The provider client on its own: a client constructed under any          *)
(* configured attempt count, called with any sequence of backend outcomes. *)
(***************************************************************************)
\* Values of config.MAX_RETRIES (the environment may set any integer).
RetryConfigs == {0, 1, 2, 3}

\* What the backend may do on one request.
ClientOutcomes ==
  { Ok(<<"H","i"," ","y","o","u">>),
    [kind |-> "ok", text |-> None, usage |-> 1],
    Fail("rate"), Fail("timeout"), Fail("conn"), Fail("error"), Fail("notfound"),
    Fail("other") }

\* The backend's behaviour on the successive requests of one call.
ClientScripts == [1..3 -> ClientOutcomes]

InitClient ==
  /\ emails = <<>>
  /\ prompts = [t \in PromptTypes |-> None]
  /\ drafts = <<>>
  /\ logs = <<>>
  /\ provider \in Providers
  /\ total_tokens_used = 0
  /\ last = NoLast
  /\ categorized = {}
  /\ nruns = 0
  /\ configured_retries \in RetryConfigs
  /\ service = unified_init(provider, TRUE).service
  /\ prompt_rows = NoPromptRows
  /\ runs = NoRuns

\* The effect of a _call_llm call with result r: outcomes are the backend's
\* answers to the requests the call sent.
ApplyCall(script, r) ==
  /\ total_tokens_used' = total_tokens_used + r.tokens
  /\ last' = [Began("_call_llm") EXCEPT
                !.ret = IF r.raised THEN "raise" ELSE IF r.result = None THEN "None" ELSE "str",
                !.outcomes = SubSeq(script, 1, r.attempts), !.client = r]

\* One _call_llm call (stream = False) of the selected provider's client.
CallLLM ==
  \E script \in ClientScripts :
    /\ service # NoService
    /\ nruns < MaxRuns
    /\ ApplyCall(script, service_call_llm(provider, configured_retries, script))
    /\ nruns' = nruns + 1
    /\ UNCHANGED <<runs, prompt_rows, emails, prompts, drafts, logs, provider, categorized, configured_retries, service>>

NextClient == CallLLM

SpecClient == InitClient /\ [][NextClient]_vars

(***************************************************************************)
(* Construction of the orchestrator (the module-level singleton), then     *)
(* calls of the client it selected.                                        *)
(***************************************************************************)
\* Values of config.LLM_PROVIDER (the environment may set any text).
Selectors == {"openai", "ollama", "OpenAI", "", "gemini"}

\* Answers of the local backend to the availability probe.
Probes ==
  { [kind |-> "ok", names |-> {OLLAMA_MODEL \o <<":","l","a","t","e","s","t">>, <<"m","i","s","t","r","a","l">>}],
    [kind |-> "ok", names |-> {<<"m","i","s","t","r","a","l">>}],
    [kind |-> "ok", names |-> {}],
    [kind |-> "status", names |-> {}],
    [kind |-> "error", names |-> {}] }

InitConstruct ==
  /\ emails = <<>>
  /\ prompts = [t \in PromptTypes |-> None]
  /\ drafts = <<>>
  /\ logs = <<>>
  /\ provider \in Selectors
  /\ total_tokens_used = 0
  /\ last = NoLast
  /\ categorized = {}
  /\ nruns = 0
  /\ configured_retries \in RetryConfigs
  /\ service = NoService
  /\ prompt_rows = NoPromptRows
  /\ runs = NoRuns

\* The effect of the constructor with result r.
ApplyInit(tags, r) ==
  /\ service' = r.service
  /\ last' = [Began("__init__") EXCEPT
                !.ret = IF r.raised THEN "raise" ELSE "None",
                !.probe = IF provider # "ollama" THEN "none"
                          ELSE IF check_health(tags) THEN "healthy" ELSE "failed",
                !.warned = r.warned]

\* UnifiedLLMService() at import, once.
Construct ==
  \E tags \in Probes :
    /\ last.op = "none"
    /\ ApplyInit(tags, unified_init(provider, check_health(tags)))
    /\ UNCHANGED <<runs, prompt_rows, emails, prompts, drafts, logs, provider, total_tokens_used, categorized,
                   nruns, configured_retries>>

NextConstruct ==
  \/ Construct
  \/ CallLLM

SpecConstruct == InitConstruct /\ [][NextConstruct]_vars

(***************************************************************************)
(* The four orchestrator operations on their own: the active provider's    *)
(* categorize_email, extract_action_items, generate_reply and answer_query *)
(* on any template and any raw model response.                             *)
(***************************************************************************)
EscapedTemplate == <<"{","{","x","}","}"," ">> \o Placeholder
BareTemplate == <<"H","i">>

\* Template texts of the prompt editor.
OpTemplates == {PlainTemplate, BracesTemplate, EscapedTemplate, BareTemplate}

\* The item text of the operations.
OpContent == email_content(NewEmail(1, Sender, Subject, Body, 1))

\* Raw model responses to a categorization prompt; None: the call failed.
CatResponses ==
  { None, <<>>, <<" ","\n">>,
    <<"T","h","i","s"," ","l","o","o","k","s"," ","I","m","p","o","r","t","a","n","t"," ","t","o"," ","m","e">>,
    <<"s","p","a","m"," ","o","r"," ","n","e","w","s","l","e","t","t","e","r","?">>,
    <<" ","T","O","-","D","O","\n">>,
    <<" ","L","a","t","e","r","\n">>,
    <<"T","o","D","o",","," ","n","o","t"," ","S","p","a","m"," ","a","n","d"," ","n","o","t"," ","t","o","-","d","o">> }

\* Raw model responses to an extraction prompt; None: the call failed.
ActResponses ==
  { None, <<>>, <<" ","\n">>,
    <<"S","u","r","e",","," ","h","e","r","e"," ","y","o","u"," ","g","o",":"," ","[","{","\"","t","a","s","k","\"",":"," ","\"","R","e","p","l","y","\"","}","]"," ","t","h","a","n","k","s","!">>,
    <<"n","o"," ","t","a","s","k","s">>,
    <<"]"," ","[">>,
    <<"[","1",","," ","2">>,
    <<"x"," ","]"," ","y">>,
    <<"[","o","o","p","s","]">>,
    <<" ","[","]","\n">>,
    <<"[","[","1","]",","," ","2","]"," ","!">>,
    <<"[","1","]"," ","o","r"," ","[","2","]">> }

\* Raw model responses to a reply or answer prompt.
TextResponses == { None, <<>>, <<"O","k",".">> }

\* A backend that answers the first request with the raw response, or fails.
ScriptOf(raw) ==
  IF raw = None THEN <<Fail("other"), Fail("other"), Fail("other")>>
  ELSE <<Ok(raw), Fail("other"), Fail("other")>>

\* What every operation of this section records.
OpBegan(op, template, raw) ==
  [Began(op) EXCEPT !.template = template, !.raw = raw,
                    !.prompt = build_prompt(provider, template, OpContent)]

\* The effect of an operation that added tokens to the usage counter.
OpDone(tokens) ==
  /\ total_tokens_used' = total_tokens_used + tokens
  /\ nruns' = nruns + 1
  /\ UNCHANGED <<runs, prompt_rows, emails, prompts, drafts, logs, provider, categorized, configured_retries,
                 service>>

\* UnifiedLLMService.categorize_email with result r.
ApplyCategorize(template, raw, r) ==
  /\ last' = [OpBegan("categorize_email", template, raw) EXCEPT
                !.ret = IF r.raised THEN "raise" ELSE IF r.result = None THEN "None" ELSE "str",
                !.category = r.result]
  /\ OpDone(r.tokens)

Categorize ==
  \E template \in OpTemplates, raw \in CatResponses :
    /\ nruns < MaxRuns
    /\ ApplyCategorize(template, raw,
                       categorize_email(provider, OpContent, template, ScriptOf(raw)))

\* UnifiedLLMService.extract_action_items with result r.
ApplyExtract(template, raw, r) ==
  /\ last' = [OpBegan("extract_action_items", template, raw) EXCEPT
                !.ret = IF r.raised THEN "raise" ELSE "list",
                !.action_items = JList(r.result)]
  /\ OpDone(r.tokens)

ExtractTasks ==
  \E template \in OpTemplates, raw \in ActResponses :
    /\ nruns < MaxRuns
    /\ ApplyExtract(template, raw,
                    extract_action_items(provider, OpContent, template, ScriptOf(raw)))

\* UnifiedLLMService.generate_reply with result r.
ApplyReply(template, raw, user_instruction, r) ==
  /\ last' = [OpBegan("generate_reply", template, raw) EXCEPT
                !.ret = IF r.raised THEN "raise" ELSE IF r.result = None THEN "None" ELSE "str",
                !.instruction = user_instruction,
                !.prompt = [raised |-> r.raised, text |-> r.prompt],
                !.response = r.result]
  /\ OpDone(r.tokens)

DraftReply ==
  \E template \in OpTemplates, raw \in TextResponses, user_instruction \in Instructions :
    /\ nruns < MaxRuns
    /\ ApplyReply(template, raw, user_instruction,
                  generate_reply(provider, OpContent, template, user_instruction,
                                 ScriptOf(raw)))

\* UnifiedLLMService.answer_query with result r.
ApplyAnswer(query, email_context, conversation_history, raw, r) ==
  /\ last' = [Began("answer_query") EXCEPT
                !.ret = IF r.result = None THEN "None" ELSE "str",
                !.raw = raw, !.query = query, !.email_context = email_context,
                !.history = conversation_history, !.messages = r.messages,
                !.prompt = Built(r.messages[Len(r.messages)].content),
                !.response = r.result]
  /\ OpDone(r.tokens)

Answer ==
  \E query \in Queries, email_context \in {None, InboxEmpty}, conversation_history \in Histories,
     raw \in TextResponses :
    /\ nruns < MaxRuns
    /\ ApplyAnswer(query, email_context, conversation_history, raw,
                   answer_query(provider, query, email_context, conversation_history,
                                ScriptOf(raw)))

NextOps ==
  \/ Categorize
  \/ ExtractTasks
  \/ DraftReply
  \/ Answer

SpecOps == Init /\ [][NextOps]_vars

(***************************************************************************)
(* Properties of the pipeline.  They read the run just completed from      *)
(* `last` (what it was called with, what it returned, the calls it made,   *)
(* the store before it) and the store after it from the state.             *)
(***************************************************************************)
Ran == last.op = "process_email"

Called(op, arg) == \E i \in DOMAIN last.calls : last.calls[i] = <<op, arg>>

\* The position of the first such call of the run, 0 if there is none.
FirstCall(op, arg) ==
  IF Called(op, arg)
  THEN CHOOSE i \in DOMAIN last.calls :
         last.calls[i] = <<op, arg>> /\ \A j \in 1..(i - 1) : last.calls[j] # <<op, arg>>
  ELSE 0

UpdateFailed == last.faults \cap {"update_execute", "update_commit"} # {}

\* The log entries the run appended.
Appended == SubSeq(logs, Len(last.pre_logs) + 1, Len(logs))

LogsKept == Len(last.pre_logs) <= Len(logs) /\ SubSeq(logs, 1, Len(last.pre_logs)) = last.pre_logs

\* The mutable fields of a row.
Triple(row) == <<row.category, row.action_items_json, row.processed>>

Fetched == Ran /\ last.email_id \in DOMAIN last.pre_emails

\* C1 as the spec states it: in every reachable state an email's processed
\* flag is true if and only if a categorization attempt on it has succeeded.
C1_ProcessedIffCategorized ==
  \A id \in DOMAIN emails : emails[id].processed = 1 <=> id \in categorized

\* C1, amended: processed is true only if a categorization attempt on the
\* email has succeeded; and a run whose categorization succeeded leaves the
\* email processed exactly when it returned True or the email was processed
\* before (a failing update, or an exception after the categorization, leaves
\* a categorized email unprocessed).
C1_ProcessedOnlyIfCategorized ==
  /\ \A id \in DOMAIN emails : emails[id].processed = 1 => id \in categorized
  /\ (Fetched /\ Truthy(last.category)) =>
       (emails[last.email_id].processed = 1
          <=> (last.ret = "True" \/ last.pre_emails[last.email_id].processed = 1))

\* A run categorized and persisted an email that was unprocessed before.
C1_Witness ==
  /\ Fetched /\ last.ret = "True"
  /\ last.pre_emails[last.email_id].processed = 0
  /\ emails[last.email_id].processed = 1
  /\ last.email_id \in categorized

\* C2: once an email's processed flag is true no step (a process_email run,
\* failing or not, a batch, a query, a draft generation, an ingestion or a
\* template write) sets it back to false.
C2_ProcessedMonotonic ==
  [][\A id \in DOMAIN emails :
       emails[id].processed = 1 => (id \in DOMAIN emails' /\ emails'[id].processed = 1)]_vars

\* A processed email went through a reprocessing run whose update failed.
C2_Witness ==
  /\ Fetched /\ last.ret = "False" /\ UpdateFailed
  /\ last.pre_emails[last.email_id].processed = 1
  /\ emails[last.email_id].processed = 1

\* C3: within one run the extraction step (its template lookup and its model
\* call) comes only after that run's categorize call returned a non-empty
\* category; a run whose categorization gave no category makes no extraction
\* call and no update_email call, and leaves the emails table as it was.
C3_ExtractionAfterCategory ==
  Ran =>
    /\ \A i \in DOMAIN last.calls :
         last.calls[i][1] \in {"extract_action_items", "update_email"}
           \/ last.calls[i] = <<"get_prompt", "action_extraction">>
         => /\ Truthy(last.category)
            /\ FirstCall("categorize_email", "llm") \in 1..(i - 1)
    /\ ~Truthy(last.category) =>
         /\ ~Called("extract_action_items", "llm")
         /\ ~Called("get_prompt", "action_extraction")
         /\ ~Called("update_email", "")
         /\ emails = last.pre_emails

\* The categorize call of a run was made and gave no category.
C3_Witness ==
  /\ Fetched /\ Called("categorize_email", "llm") /\ ~Truthy(last.category)
  /\ last.ret = "False"

\* C4: after a run the email's (category, action_items_json, processed) is
\* either the run's (category, json of its action items, 1) or what it was
\* before the run.
C4_PersistAllOrNothing ==
  Fetched =>
    \/ Triple(emails[last.email_id])
         = <<last.category, json_dumps(last.action_items), 1>>
    \/ Triple(emails[last.email_id]) = Triple(last.pre_emails[last.email_id])

\* A run computed a category and tasks that differ from the stored ones and
\* its update failed.
C4_Witness ==
  /\ Fetched /\ UpdateFailed /\ Called("update_email", "")
  /\ Truthy(last.category) /\ last.action_items.v # <<>>
  /\ Triple(last.pre_emails[last.email_id])
       # <<last.category, json_dumps(last.action_items), 1>>

\* C5: a run whose update_email fails (after categorization and extraction
\* succeeded) returns False and keeps every log entry written before; when
\* the run's log inserts do not fail themselves it has appended, in order, the
\* categorization success, the action_extraction success (when the extraction
\* template exists) and a failed database_update entry.
C5_UpdateFailureLogged ==
  (Fetched /\ UpdateFailed /\ Called("update_email", "")) =>
    /\ last.ret = "False"
    /\ LogsKept
    /\ last.logFail = {} =>
         Appended =
           <<LogEntry(last.email_id, "categorization", "success")>>
             \o (IF Called("insert_log", "action_extraction")
                 THEN <<LogEntry(last.email_id, "action_extraction", "success")>>
                 ELSE <<>>)
             \o <<LogEntry(last.email_id, "database_update", "failed")>>

\* The update of a run failed after both model calls, and all three entries
\* were logged.
C5_Witness ==
  /\ Fetched /\ UpdateFailed /\ Called("update_email", "") /\ last.logFail = {}
  /\ Called("extract_action_items", "llm")
  /\ Len(Appended) = 3

\* C6 as the spec states it: a run whose update_email fails after a
\* successful categorization leaves the email's category set to the category
\* just computed, with processed false.
C6_CategoryLeftSet ==
  (Fetched /\ UpdateFailed /\ Called("update_email", "")) =>
    /\ emails[last.email_id].category = last.category
    /\ emails[last.email_id].processed = 0

\* C6, amended: a failing update_email is rolled back as a whole: the email's
\* category, action items and processed flag (the whole emails table) are
\* what they were before the run.
C6_FailedUpdateRolledBack ==
  (Fetched /\ UpdateFailed /\ Called("update_email", "")) =>
    /\ emails = last.pre_emails
    /\ Triple(emails[last.email_id]) = Triple(last.pre_emails[last.email_id])

\* The commit of the update failed for an email that had no category.
C6_Witness ==
  /\ Fetched /\ "update_commit" \in last.faults /\ Called("update_email", "")
  /\ Truthy(last.category)
  /\ last.pre_emails[last.email_id].category = None

\* C7: with no categorization template a run on a stored email makes no model
\* call, returns False, leaves the emails table unchanged and (its log insert
\* not failing) appends exactly one failed categorization entry.
C7_NoCategorizationTemplate ==
  (Fetched /\ prompts["categorization"] = None) =>
    /\ ~Called("categorize_email", "llm")
    /\ ~Called("extract_action_items", "llm")
    /\ total_tokens_used = last.pre_tokens
    /\ last.ret = "False"
    /\ emails = last.pre_emails
    /\ LogsKept
    /\ 1 \notin last.logFail =>
         Appended = <<LogEntry(last.email_id, "categorization", "failed")>>

\* A run on a stored email met no categorization template.
C7_Witness ==
  /\ Fetched /\ prompts["categorization"] = None
  /\ Len(Appended) = 1

\* C8: a run on an id that is not in the store returns False after the
\* get_email call alone: no template lookup, no model call, no log entry, no
\* change to any email.
C8_UnknownId ==
  (Ran /\ last.email_id \notin DOMAIN last.pre_emails) =>
    /\ last.ret = "False"
    /\ last.calls = <<<<"get_email", "">>>>
    /\ logs = last.pre_logs
    /\ emails = last.pre_emails
    /\ total_tokens_used = last.pre_tokens

\* A run on an absent id while another email is stored and templates exist.
C8_Witness ==
  /\ Ran /\ last.email_id \notin DOMAIN last.pre_emails
  /\ DOMAIN emails # {}
  /\ prompts["categorization"] # None

\* C9: when categorization succeeded and there is no action_extraction
\* template the run makes no extraction model call, goes on with an empty
\* task list and calls update_email; the update not failing, the email is
\* stored as (category, "[]", 1) and the run returns True.
C9_NoExtractionTemplate ==
  (Fetched /\ Truthy(last.category) /\ prompts["action_extraction"] = None) =>
    /\ ~Called("extract_action_items", "llm")
    /\ last.action_items = JList(<<>>)
    /\ Called("update_email", "")
    /\ ~UpdateFailed =>
         /\ last.ret = "True"
         /\ Triple(emails[last.email_id]) = <<last.category, <<"[", "]">>, 1>>

\* A run categorized an email without an extraction template and stored it.
C9_Witness ==
  /\ Fetched /\ Truthy(last.category) /\ prompts["action_extraction"] = None
  /\ last.ret = "True"
  /\ emails[last.email_id].processed = 1

\* C10 as the spec states it: every extraction call of a run is followed by
\* one insert of an action_extraction log entry with status success, which
\* (the insert not failing) is the only action_extraction entry the run
\* appends, whatever the result (tasks, no tasks, none because the model call
\* or the parsing failed); and the run then returns True unless its update
\* fails.
C10_EveryExtractionLogged ==
  (Ran /\ Called("extract_action_items", "llm")) =>
    /\ Cardinality({i \in DOMAIN last.calls :
                      last.calls[i] = <<"extract_action_items", "llm">>}) = 1
    /\ Cardinality({i \in DOMAIN last.calls :
                      last.calls[i] = <<"insert_log", "action_extraction">>}) = 1
    /\ FirstCall("insert_log", "action_extraction")
         = FirstCall("extract_action_items", "llm") + 1
    /\ \A i \in DOMAIN Appended :
         Appended[i].operation = "action_extraction" => Appended[i].status = "success"
    /\ 2 \notin last.logFail =>
         Cardinality({i \in DOMAIN Appended :
                        Appended[i] = LogEntry(last.email_id, "action_extraction", "success")}) = 1
    /\ ~UpdateFailed => last.ret = "True"

\* C10 away from the failing call: the same holds of every run whose
\* extraction call returned, that is, every run that did not end in an
\* exception.
C10_ReturnedExtractionLogged ==
  (Ran /\ Called("extract_action_items", "llm") /\ last.ret # "raise") =>
    /\ Cardinality({i \in DOMAIN last.calls :
                      last.calls[i] = <<"insert_log", "action_extraction">>}) = 1
    /\ FirstCall("insert_log", "action_extraction")
         = FirstCall("extract_action_items", "llm") + 1
    /\ \A i \in DOMAIN Appended :
         Appended[i].operation = "action_extraction" => Appended[i].status = "success"
    /\ 2 \notin last.logFail =>
         Cardinality({i \in DOMAIN Appended :
                        Appended[i] = LogEntry(last.email_id, "action_extraction", "success")}) = 1
    /\ ~UpdateFailed => last.ret = "True"

\* The extraction call of a run raised: no action_extraction entry, no update,
\* and the exception leaves process_email.
C10_Witness ==
  /\ Ran /\ Called("extract_action_items", "llm")
  /\ ~Called("insert_log", "action_extraction")
  /\ last.ret = "raise"
  /\ logs = last.pre_logs \o <<LogEntry(last.email_id, "categorization", "success")>>

\* The operation just completed is a batch_process_emails call.
Batched == last.op = "batch_process_emails"

\* The positions of the batch whose process_email call returned false or raised.
FailedItems == {i \in 1..Len(last.results.rets) : last.results.rets[i] # "True"}

\* C11: for a list of N ids of which K fail processing (return false or
\* raise), batch_process_emails returns total = N, successful = N - K,
\* failed = K and an error list of exactly K entries; successful + failed = total.
C11_BatchCounts ==
  Batched =>
    /\ Len(last.results.rets) = Len(last.email_ids)
    /\ last.results.total = Len(last.email_ids)
    /\ last.results.successful = Len(last.email_ids) - Cardinality(FailedItems)
    /\ last.results.failed = Cardinality(FailedItems)
    /\ Len(last.results.errors) = Cardinality(FailedItems)
    /\ last.results.successful + last.results.failed = last.results.total

\* A batch of two ids of which one succeeded and the other raised.
C11_Witness ==
  /\ Batched
  /\ Len(last.email_ids) = 2
  /\ \E i, j \in 1..2 : last.results.rets[i] = "True" /\ last.results.rets[j] = "raise"
  /\ last.results.failed = 1

\* C12: batch_process_emails attempts every id of its list exactly once, in
\* list order, whatever failed or raised on earlier ids, and returns its
\* dictionary: no exception leaves it.
C12_EveryIdAttemptedOnce ==
  Batched =>
    /\ last.results.attempted = last.email_ids
    /\ last.ret = "dict"

\* A batch whose first id raised and whose second id was still attempted.
C12_Witness ==
  /\ Batched
  /\ Len(last.email_ids) = 2
  /\ last.results.rets[1] = "raise"
  /\ Len(last.results.attempted) = 2
  /\ last.ret = "dict"

(***************************************************************************)
(* Properties of the provider client.  They read the _call_llm call just   *)
(* completed from `last`: outcomes are the backend's answers to the        *)
(* requests it sent, client is what the call did.                          *)
(***************************************************************************)
LLMCalled == last.op = "_call_llm"

\* The backend's answer to attempt k (counted from 0) was of this kind.
Answered(k, kind) == k < Len(last.outcomes) /\ last.outcomes[k + 1].kind = kind

\* Every request of the call was answered with this kind.
EveryAttempt(kind) == \A k \in 0..(Len(last.outcomes) - 1) : Answered(k, kind)

\* self.max_retries of the client in use.
SelfMaxRetries == IF provider = "openai" THEN configured_retries ELSE OLLAMA_MAX_RETRIES

\* The time.sleep calls made after attempt k.
SleptAfter(k) == SelectSeq(last.client.sleeps, LAMBDA e : e[1] = k)

\* C13: a backend that reports rate limiting on every attempt is called
\* exactly MAX_RETRIES (the configured attempt count) times by one
\* provider-client call, which then returns none.
C13_RateLimitedEveryAttempt ==
  (LLMCalled /\ EveryAttempt("rate")) =>
    /\ last.client.attempts = configured_retries
    /\ last.client.result = None
    /\ ~last.client.raised

\* The same of the remote-API client alone.
C13_RemoteRateLimited ==
  (LLMCalled /\ provider = "openai" /\ EveryAttempt("rate")) =>
    /\ last.client.attempts = configured_retries
    /\ last.client.result = None
    /\ ~last.client.raised

\* A remote-API call whose three requests were all answered with rate limiting.
C13_Witness ==
  /\ LLMCalled
  /\ provider = "openai"
  /\ configured_retries = 3
  /\ Len(last.outcomes) = 3
  /\ EveryAttempt("rate")
  /\ last.client.result = None

\* C14: for both provider variants the number of backend requests of one
\* complete call never exceeds the configured maximum attempt count, for every
\* configured value and every sequence of backend outcomes.
C14_RequestsWithinConfigured ==
  LLMCalled => last.client.attempts <= configured_retries

\* The same of the remote-API client alone.
C14_RemoteWithinConfigured ==
  (LLMCalled /\ provider = "openai") => last.client.attempts <= configured_retries

\* The local client's requests never exceed its own fixed count.
C14_LocalWithinFixed ==
  (LLMCalled /\ provider = "ollama") => last.client.attempts <= OLLAMA_MAX_RETRIES

\* A call that used every attempt a configured count of two allows.
C14_Witness ==
  /\ LLMCalled
  /\ provider = "openai"
  /\ configured_retries = 2
  /\ last.client.attempts = 2

\* C15: after the k-th failed attempt (k from 0) that is not the last allowed
\* attempt the client waits 2^k seconds if the failure was rate limiting and
\* 1 second if it was a timeout; it never waits after the final attempt.
C15_BackoffSchedule ==
  LLMCalled =>
    /\ \A k \in 0..(Len(last.outcomes) - 1) :
         k < SelfMaxRetries - 1 =>
           /\ Answered(k, "rate") => SleptAfter(k) = << <<k, pow2(k)>> >>
           /\ Answered(k, "timeout") => SleptAfter(k) = << <<k, 1>> >>
    /\ SleptAfter(SelfMaxRetries - 1) = <<>>
    /\ SleptAfter(Len(last.outcomes) - 1) = <<>>

\* The same of the remote-API client alone.
C15_RemoteBackoffSchedule ==
  (LLMCalled /\ provider = "openai") => C15_BackoffSchedule

\* The local client waits 1 second after a timeout and 2 seconds after a
\* failed connection that is not its last attempt, and not otherwise.
C15_LocalBackoffSchedule ==
  (LLMCalled /\ provider = "ollama") =>
    /\ \A k \in 0..(Len(last.outcomes) - 1) :
         SleptAfter(k) =
           IF k < OLLAMA_MAX_RETRIES - 1 /\ Answered(k, "timeout") THEN << <<k, 1>> >>
           ELSE IF k < OLLAMA_MAX_RETRIES - 1 /\ Answered(k, "conn") THEN << <<k, 2>> >>
           ELSE <<>>
    /\ Len(last.client.sleeps) < OLLAMA_MAX_RETRIES

\* A call that waited 1 and then 2 seconds on rate limiting, and one that
\* met a timeout on its final attempt.
C15_Witness ==
  /\ LLMCalled
  /\ provider = "openai"
  /\ last.client.sleeps = << <<0, 1>>, <<1, 2>> >>
  /\ Answered(0, "rate") /\ Answered(1, "rate") /\ Answered(2, "timeout")

\* What the call returns when the backend answers every request with `kind`.
ResultWhenAlways(kind) ==
  service_call_llm(provider, configured_retries, [i \in 1..3 |-> Fail(kind)])

\* C16: when every attempt fails because the backend is unreachable, the
\* final result is a distinguished "service unavailable" failure, which the
\* caller can tell apart from the result of a rate-limit, timeout or other
\* failure.
C16_UnavailableDistinguished ==
  (LLMCalled /\ Len(last.outcomes) > 0 /\ EveryAttempt("conn")) =>
    \A kind \in {"rate", "timeout", "error", "other"} :
      <<last.client.result, last.client.raised>>
        # <<ResultWhenAlways(kind).result, ResultWhenAlways(kind).raised>>

\* A call all of whose attempts found the backend unreachable.
C16_Witness ==
  /\ LLMCalled
  /\ Len(last.outcomes) = 3
  /\ EveryAttempt("conn")
  /\ last.client.result = None

\* Backend errors that are neither rate limiting, timeout nor connectivity.
PermanentErrors == {"error", "notfound", "other"}

\* C17: a backend error that is neither rate limiting, timeout nor
\* connectivity (a generic API error, a non-200 status) is not retried beyond
\* one attempt and never enters a backoff loop: the call returns none after it.
C17_PermanentErrorNotRetried ==
  LLMCalled =>
    \A k \in 0..(Len(last.outcomes) - 1) :
      (\E kind \in PermanentErrors : Answered(k, kind)) =>
        /\ k = Len(last.outcomes) - 1
        /\ SleptAfter(k) = <<>>
        /\ last.client.result = None

\* What holds of the code: an unexpected exception (either client) and a 404
\* status (local client) end the call at once with none.
C17_TerminalErrors ==
  LLMCalled =>
    \A k \in 0..(Len(last.outcomes) - 1) :
      (Answered(k, "other") \/ (provider = "ollama" /\ Answered(k, "notfound"))) =>
        /\ k = Len(last.outcomes) - 1
        /\ SleptAfter(k) = <<>>
        /\ last.client.result = None

\* A call whose first request met a generic backend error and which sent more.
C17_Witness ==
  /\ LLMCalled
  /\ Answered(0, "error")
  /\ Len(last.outcomes) > 1

\* The last answer of the call is a completion with this content.
Completed(text) ==
  /\ Len(last.outcomes) > 0
  /\ last.outcomes[Len(last.outcomes)].kind = "ok"
  /\ last.outcomes[Len(last.outcomes)].text = text

\* C18: the provider client call never raises: for every sequence of backend
\* outcomes in either variant it returns the response text or none.
C18_NeverRaises ==
  LLMCalled =>
    /\ ~last.client.raised
    /\ last.ret \in {"str", "None"}
    /\ last.ret = "str" => Completed(last.client.result)

\* A call that met a timeout and then an unexpected exception, and returned none.
C18_Witness ==
  /\ LLMCalled
  /\ Answered(0, "timeout")
  /\ Answered(1, "other")
  /\ last.ret = "None"
  /\ ~last.client.raised

\* C19: process_email always returns a boolean and never raises to its
\* caller, for every store state, template text and backend outcome,
\* including a failing store lookup, a template whose placeholder
\* substitution fails, and a failing log insert.
C19_AlwaysReturnsBoolean ==
  Ran => last.ret \in {"True", "False"}

\* The template in use of one of the two model calls has braces that
\* str.format does not accept.
FormatFails ==
  /\ provider = "openai"
  /\ \/ build_prompt(provider, prompts["categorization"], <<>>).raised
     \/ build_prompt(provider, prompts["action_extraction"], <<>>).raised

\* What holds of the code: a run raises only on a failing store lookup or a
\* failing substitution; it returns a boolean otherwise, a failing update and
\* failing log inserts included.
C19_RaisesOnlyOnLookupOrTemplate ==
  (Ran /\ last.faults \cap ReadFaults = {} /\ ~FormatFails) => last.ret \in {"True", "False"}

\* A run whose email lookup raised, which left process_email with the exception.
C19_Witness ==
  /\ Ran
  /\ "get_email" \in last.faults
  /\ last.ret = "raise"

\* The backend's answer to the last request of the call ("none" without one).
LastAnswer ==
  IF Len(last.outcomes) = 0 THEN Fail("none") ELSE last.outcomes[Len(last.outcomes)]

\* The usage of a completion as the client in use counts it (tenths).
Reported(o) ==
  IF provider = "openai" THEN 10 * o.usage
  ELSE IF o.text = None THEN 0 ELSE 13 * wordCount(o.text)

\* C20: the usage counter is non-decreasing over any sequence of calls and
\* never reset; a failed attempt or a call that ends in none leaves it
\* unchanged, and a successful non-streaming call increases it at most once.
C20_UsageCounter ==
  /\ total_tokens_used >= last.pre_tokens
  /\ (LLMCalled /\ last.client.result = None) => total_tokens_used = last.pre_tokens
  /\ (LLMCalled /\ last.client.result # None) =>
       total_tokens_used - last.pre_tokens = Reported(LastAnswer)

\* C20 as amended: the counter is non-decreasing and never reset; a call
\* that received no completion leaves it unchanged, and a call that received
\* one (returned as text, or as none when its content is null) increases it
\* once, by that completion's usage.
C20_UsageCounterAmended ==
  /\ total_tokens_used >= last.pre_tokens
  /\ (LLMCalled /\ LastAnswer.kind # "ok") =>
       /\ last.client.result = None
       /\ total_tokens_used = last.pre_tokens
  /\ (LLMCalled /\ LastAnswer.kind = "ok") =>
       /\ last.client.result = LastAnswer.text
       /\ total_tokens_used - last.pre_tokens = Reported(LastAnswer)

\* A call after a counted one that failed on every attempt and left the
\* counter where it was.
C20_Witness ==
  /\ LLMCalled
  /\ last.pre_tokens > 0
  /\ Len(last.outcomes) = 3
  /\ LastAnswer.kind = "rate"
  /\ last.client.result = None
  /\ total_tokens_used = last.pre_tokens

(***************************************************************************)
(* Properties of the orchestrator's construction.                          *)
(***************************************************************************)
Constructed == last.op = "__init__"

\* C21: constructing the orchestrator selects exactly one provider when the
\* selector is one of the two recognized backends and raises a configuration
\* error, leaving no usable service, for any other selector value; with the
\* local-inference backend a failed availability probe only logs a warning
\* and construction still succeeds.
C21_ProviderSelection ==
  Constructed =>
    /\ provider = "openai" => (last.ret = "None" /\ service = "LLMService")
    /\ provider = "ollama" => (last.ret = "None" /\ service = "OllamaService")
    /\ provider \notin {"openai", "ollama"} => (last.ret = "raise" /\ service = NoService)
    /\ last.probe = "failed" => (last.ret = "None" /\ service = "OllamaService" /\ last.warned)
    /\ last.warned => last.probe = "failed"

\* The local client selected although its availability probe failed.
C21_Witness ==
  /\ Constructed
  /\ provider = "ollama"
  /\ last.probe = "failed"
  /\ last.warned
  /\ service = "OllamaService"

\* A selector in another letter case is refused.
C21_WitnessRefused ==
  /\ Constructed
  /\ provider = "OpenAI"
  /\ last.ret = "raise"
  /\ service = NoService

(***************************************************************************)
(* Properties of the orchestrator operations.  They read the operation     *)
(* just completed from `last`: template and raw are what it was given,     *)
(* prompt what it built, category / action_items / response its result.    *)
(***************************************************************************)
OtherProvider == IF provider = "openai" THEN "ollama" ELSE "openai"

\* The operation just completed, done by provider p on the same inputs, builds
\* the same prompt and returns the same result (or raises as well).
SameUnder(p) ==
  /\ last.op = "categorize_email" =>
       /\ build_prompt(p, last.template, OpContent) = last.prompt
       /\ categorize_email(p, OpContent, last.template, ScriptOf(last.raw)).raised
            = (last.ret = "raise")
       /\ categorize_email(p, OpContent, last.template, ScriptOf(last.raw)).result
            = last.category
  /\ last.op = "extract_action_items" =>
       /\ build_prompt(p, last.template, OpContent) = last.prompt
       /\ extract_action_items(p, OpContent, last.template, ScriptOf(last.raw)).raised
            = (last.ret = "raise")
       /\ JList(extract_action_items(p, OpContent, last.template, ScriptOf(last.raw)).result)
            = last.action_items
  /\ last.op = "generate_reply" =>
       /\ generate_reply(p, OpContent, last.template, last.instruction,
                         ScriptOf(last.raw)).raised = last.prompt.raised
       /\ generate_reply(p, OpContent, last.template, last.instruction,
                         ScriptOf(last.raw)).prompt = last.prompt.text
       /\ generate_reply(p, OpContent, last.template, last.instruction,
                         ScriptOf(last.raw)).result = last.response
  /\ last.op = "answer_query" =>
       /\ answer_query(p, last.query, last.email_context, last.history,
                       ScriptOf(last.raw)).result = last.response
       /\ LET m == answer_query(p, last.query, last.email_context, last.history,
                                ScriptOf(last.raw)).messages
          IN  m[Len(m)].content = last.prompt.text

\* C22: the four orchestrator operations are provider-independent: for the
\* same template text, item text and raw model responses they return the same
\* result and construct the same prompt whichever backend is active.
C22_ProviderIndependent == SameUnder(OtherProvider)

\* The template has no brace outside its {email_content} placeholders.
NoStrayBraces(t) ==
  \A i \in DOMAIN replace(t, 1, <<>>, <<>>).text :
    replace(t, 1, <<>>, <<>>).text[i] \notin {"{", "}"}

\* What holds of the code: the operations agree on templates without braces
\* of their own.
C22_IndependentWithoutStrayBraces ==
  NoStrayBraces(last.template) => SameUnder(OtherProvider)

\* An extraction on a template carrying a JSON example.
C22_Witness ==
  /\ last.op = "extract_action_items"
  /\ last.template = BracesTemplate
  /\ last.raw # None
  /\ provider = "ollama"
  /\ last.ret = "list"

\* A categorize call that received the raw model response last.raw.
Interpreted == last.op = "categorize_email" /\ last.ret # "raise"

\* The enumerated categories whose name occurs, case-insensitively, in text.
Occurring(text) ==
  {i \in DOMAIN valid_categories : contains(lower(valid_categories[i]), lower(text))}

\* C23: category extraction returns the first category in the order
\* [Important, Newsletter, Spam, To-Do] whose name occurs, case-insensitively,
\* as a substring of the trimmed response, wherever it occurs; if none occurs
\* it returns the trimmed response ('This looks Important to me' gives
\* 'Important').
C23_FirstEnumeratedCategory ==
  (Interpreted /\ last.raw \notin {None, <<>>}) =>
    /\ \A i \in Occurring(strip(last.raw)) :
         (\A j \in Occurring(strip(last.raw)) : i <= j) => last.category = valid_categories[i]
    /\ Occurring(strip(last.raw)) = {} => last.category = strip(last.raw)
    /\ last.raw = <<"T","h","i","s"," ","l","o","o","k","s"," ","I","m","p","o","r","t","a","n","t"," ","t","o"," ","m","e">>
         => last.category = Important

\* A response naming Spam before Newsletter in the text, read as Newsletter.
C23_Witness ==
  /\ Interpreted
  /\ last.raw = <<"s","p","a","m"," ","o","r"," ","n","e","w","s","l","e","t","t","e","r","?">>
  /\ last.category = Newsletter

\* C24: category extraction is total: for any non-empty raw response (a
\* whitespace-only one included) it returns one of the four enumerated
\* categories or the trimmed response, and it returns none only when the
\* model call itself yielded no result (none or an empty text).
C24_CategoryExtractionTotal ==
  Interpreted =>
    /\ last.raw \notin {None, <<>>} =>
         /\ last.category # None
         /\ \/ \E i \in DOMAIN valid_categories : last.category = valid_categories[i]
            \/ last.category = strip(last.raw)
    /\ last.category = None => last.raw \in {None, <<>>}

\* A whitespace-only response, returned as the empty trimmed text.
C24_Witness ==
  /\ Interpreted
  /\ last.raw = <<" ","\n">>
  /\ last.category = <<>>

\* An extraction call that received the raw model response last.raw.
Extracted == last.op = "extract_action_items" /\ last.ret # "raise"

\* The substring from the first "[" to the last "]" of the trimmed response
\* (empty when one is missing or the last "]" comes first).
Bracketed(raw) ==
  IF find(strip(raw), "[") = -1 \/ rfind(strip(raw), "]") = -1 THEN <<>>
  ELSE slice(strip(raw), find(strip(raw), "["), rfind(strip(raw), "]") + 1)

\* The task lists the responses of ActResponses hold.
ExpectedTasks(raw) ==
  IF raw = <<"S","u","r","e",","," ","h","e","r","e"," ","y","o","u"," ","g","o",":"," ","[","{","\"","t","a","s","k","\"",":"," ","\"","R","e","p","l","y","\"","}","]"," ","t","h","a","n","k","s","!">>
  THEN << JDict(<< <<<<"t","a","s","k">>, JStr(<<"R","e","p","l","y">>)>> >>) >>
  ELSE IF raw = <<"[","[","1","]",","," ","2","]"," ","!">>
  THEN << JList(<<JInt(1)>>), JInt(2) >>
  ELSE <<>>

C26_WitnessEmpty ==
  /\ Extracted
  /\ last.raw \in {<<"[","1","]"," ","o","r"," ","[","2","]">>, <<"]"," ","[">>}
  /\ last.action_items = JList(<<>>)

\* C25: in every state reachable through the pipeline each item has a single
\* category value that is unset or one of {Important, Newsletter, Spam,
\* To-Do}, except that model text containing no enumerated name is stored
\* verbatim (trimmed, non-empty); a response that contains an enumerated name
\* is never stored as raw text.
C25_CategoryClosedSet ==
  \A id \in DOMAIN emails :
    \/ emails[id].category = None
    \/ \E i \in DOMAIN valid_categories : emails[id].category = valid_categories[i]
    \/ /\ emails[id].category # <<>>
       /\ strip(emails[id].category) = emails[id].category
       /\ Occurring(emails[id].category) = {}

\* One item categorized from a response naming a category, then again from a
\* response naming none, stored trimmed.
C25_Witness ==
  /\ Ran
  /\ last.ret = "True"
  /\ last.pre_emails[1].category = Spam
  /\ emails[1].category = <<"L","a","t","e","r">>

\* C27: after every process_email run that returned True the email's stored
\* task list, as get_email reads it back, is exactly the list that run's
\* extraction returned (the empty list included), whatever list the email
\* held before the run.
C27_TasksReplacedWholesale ==
  (Fetched /\ last.ret = "True") =>
     /\ emails[last.email_id].action_items_json = json_dumps(last.action_items)
     /\ row_to_email(emails[last.email_id]).action_items = last.action_items

\* A run on an email that held a task returned True with an empty extraction
\* and left the email without tasks.
C27_Witness ==
  /\ Fetched /\ last.ret = "True"
  /\ row_to_email(last.pre_emails[last.email_id]).action_items.v # <<>>
  /\ last.action_items = JList(<<>>)
  /\ row_to_email(emails[last.email_id]).action_items = JList(<<>>)

\* C28: the processing log is append-only.  Every step (ingestion, a template
\* write, a process_email run, a batch, a draft generation, a query) leaves
\* the entries the log held, in their order and unmodified, as a prefix of
\* the log after it, and every entry of the log has status success or failed.
C28_LogAppendOnly ==
  [][/\ Len(logs) <= Len(logs')
     /\ SubSeq(logs', 1, Len(logs)) = logs
     /\ \A i \in DOMAIN logs' : logs'[i].status \in {"success", "failed"}]_vars

\* A run appended entries to a log that held a failed and a success entry.
C28_Witness ==
  /\ Ran /\ Len(logs) > Len(last.pre_logs) /\ LogsKept
  /\ \E i, j \in DOMAIN last.pre_logs :
       last.pre_logs[i].status = "failed" /\ last.pre_logs[j].status = "success"

\* The context routing of the query just handled.
Queried == last.op = "handle_query"

Focused == Queried /\ last.email_id # 0

FocusedEmail == row_to_email(last.pre_emails[last.email_id])

\* C29: handle_query with a focused id of a stored email builds the
\* item-scoped context of that email; without a focused id it builds the
\* collection-scoped context exactly when the lower-cased query contains one
\* of the fixed keywords, and no context otherwise.
C29_ContextRouting ==
  /\ (Focused /\ last.email_id \in DOMAIN last.pre_emails) =>
        /\ last.ret # "raise"
        /\ ~build_email_context(FocusedEmail).raised
        /\ last.email_context = build_email_context(FocusedEmail).text
  /\ (Queried /\ ~Focused) =>
        /\ last.ret # "raise"
        /\ last.email_context =
             (IF \E keyword \in inbox_keywords : contains(keyword, lower(last.query))
              THEN build_inbox_context(last.pre_emails)
              ELSE None)

\* C29 for the calls that returned, with the case of a focused id that names
\* no stored email: that call gets no context, whatever the query says.
C29_RoutingOfReturnedCalls ==
  (Queried /\ last.ret # "raise") =>
     last.email_context =
       (IF Focused
        THEN (IF last.email_id \in DOMAIN last.pre_emails
              THEN build_email_context(FocusedEmail).text
              ELSE None)
        ELSE IF \E keyword \in inbox_keywords : contains(keyword, lower(last.query))
             THEN build_inbox_context(last.pre_emails)
             ELSE None)

\* A query focused on an email whose stored task list holds a value that is
\* not an object: building its context raised.
C29_Witness ==
  /\ Focused /\ last.email_id \in DOMAIN last.pre_emails
  /\ last.ret = "raise"
  /\ \E i \in DOMAIN FocusedEmail.action_items.v : FocusedEmail.action_items.v[i].t # "dict"

\* A keyword query focused on an unknown id was answered without any context.
C29_WitnessUnknownFocus ==
  /\ Focused /\ last.email_id \notin DOMAIN last.pre_emails
  /\ is_inbox_query(last.query)
  /\ last.ret = "str" /\ last.email_context = None

\* The answer operation of the query just handled gave a text.
AnswerGiven ==
  /\ last.outcomes # <<>>
  /\ last.outcomes[Len(last.outcomes)].kind = "ok"
  /\ Truthy(last.outcomes[Len(last.outcomes)].text)

\* C30: handle_query always returns a non-empty string: the answer when the
\* answer operation gave a non-empty text and the fixed apology when it gave
\* none or an empty text, for every query, focused id, history and backend
\* behaviour.
C30_AlwaysNonEmptyString ==
  Queried =>
    /\ last.ret = "str"
    /\ last.response # None /\ last.response # <<>>
    /\ AnswerGiven => last.response = last.outcomes[Len(last.outcomes)].text
    /\ ~AnswerGiven => last.response = Apology

\* C30 for the calls that returned.
C30_NonEmptyWhenReturned ==
  (Queried /\ last.ret # "raise") =>
    /\ last.response # None /\ last.response # <<>>
    /\ AnswerGiven => last.response = last.outcomes[Len(last.outcomes)].text
    /\ ~AnswerGiven => last.response = Apology

\* A query focused on an email with a task that is not an object ended in an
\* exception before the answer operation was called.
C30_Witness ==
  /\ Focused /\ last.email_id \in DOMAIN last.pre_emails
  /\ last.ret = "raise" /\ last.outcomes = <<>>
  /\ build_email_context(FocusedEmail).raised

\* A query whose answer came back empty was answered with the apology.
C30_WitnessApology ==
  /\ Queried /\ last.ret = "str" /\ last.response = Apology
  /\ last.outcomes # <<>> /\ last.outcomes[Len(last.outcomes)].kind = "ok"

\* The text a final user message carries for a query and its context.
FullQuery(query, email_context) ==
  IF Truthy(email_context)
  THEN <<"E","m","a","i","l"," ","C","o","n","t","e","x","t",":","\n">> \o email_context
         \o <<"\n","\n","U","s","e","r"," ","Q","u","e","r","y",":"," ">> \o query
  ELSE query

\* C31: a collection-scoped query against an empty emails table gets the
\* context that says the inbox is empty, and the answer call is still made:
\* the backend receives a request whose final user message carries that
\* context and the query.
C31_EmptyInboxStillAnswered ==
  (Queried /\ ~Focused /\ is_inbox_query(last.query) /\ DOMAIN last.pre_emails = {}) =>
     /\ last.ret = "str"
     /\ last.email_context = InboxEmpty
     /\ last.outcomes # <<>>
     /\ last.messages # <<>>
     /\ last.messages[Len(last.messages)] = Message("user", FullQuery(last.query, InboxEmpty))

\* A keyword query on the empty table was sent to the backend and answered.
C31_Witness ==
  /\ Queried /\ ~Focused /\ is_inbox_query(last.query) /\ DOMAIN last.pre_emails = {}
  /\ last.email_context = InboxEmpty
  /\ last.outcomes # <<>> /\ last.outcomes[1].kind = "ok"
  /\ last.response = last.outcomes[1].text

\* C32: the messages an answer request sends to the backend are one system
\* message, then the last 5 turns of the supplied history in their order (all
\* of them when it has fewer than 5), then one user message carrying the
\* query with its context; no other message has the system role or follows
\* the final user message.
C32_MessageSequence ==
  (Queried /\ last.ret # "raise") =>
     /\ Len(last.messages)
          = 2 + (IF Len(last.history) < 5 THEN Len(last.history) ELSE 5)
     /\ last.messages[1] = Message("system", AnswerSystem)
     /\ \A k \in 1..(Len(last.messages) - 2) :
          last.messages[1 + k]
            = last.history[Len(last.history) - (Len(last.messages) - 2) + k]
     /\ last.messages[Len(last.messages)]
          = Message("user", FullQuery(last.query, last.email_context))

\* A query with six turns of history sent the system message, turns 2..6 and
\* the user message with a context.
C32_Witness ==
  /\ Queried /\ last.ret = "str" /\ Len(last.history) = 6
  /\ Len(last.messages) = 7
  /\ last.messages[2] = Turn(2) /\ last.messages[6] = Turn(6)
  /\ Truthy(last.email_context)

\* A query with three turns of history sent all three.
C32_WitnessShortHistory ==
  /\ Queried /\ last.ret = "str" /\ Len(last.history) = 3
  /\ Len(last.messages) = 5 /\ last.messages[2] = Turn(1)

\* The generate_draft call just made, and what the claim makes it depend on.
Drafted == last.op = "generate_draft"

DraftsKept ==
  Len(last.pre_drafts) <= Len(drafts) /\ SubSeq(drafts, 1, Len(last.pre_drafts)) = last.pre_drafts

DraftPossible ==
  /\ last.email_id \in DOMAIN emails
  /\ prompts["auto_reply"] # None
  /\ Truthy(last.response)
  /\ last.faults = {}

NewDraft == drafts[Len(drafts)]

\* C33: generate_draft appends exactly one draft (the email's id, "Re: " and
\* its subject, the generated body) when the email exists, the auto_reply
\* template exists, the generation returned a text and the insert succeeded;
\* in every other case it returns None and leaves the drafts as they were;
\* the drafts stored before the call are never changed.
C33_DraftCreatedOrNone ==
  Drafted =>
    /\ DraftsKept
    /\ IF DraftPossible
       THEN /\ last.ret = "Draft"
            /\ Len(drafts) = Len(last.pre_drafts) + 1
            /\ NewDraft.email_id = last.email_id
            /\ NewDraft.subject = <<"R","e",":"," ">> \o emails[last.email_id].subject
            /\ NewDraft.body = last.response
       ELSE /\ last.ret = "None"
            /\ drafts = last.pre_drafts

\* C33 for the calls that returned: one new draft under the four conditions,
\* None and the same drafts otherwise; a call that raised left the drafts as
\* they were.
C33_DraftOfReturnedCalls ==
  Drafted =>
    /\ DraftsKept
    /\ last.ret = "raise" => drafts = last.pre_drafts
    /\ (last.ret # "raise" /\ DraftPossible) =>
          /\ last.ret = "Draft"
          /\ Len(drafts) = Len(last.pre_drafts) + 1
          /\ NewDraft.email_id = last.email_id
          /\ NewDraft.subject = <<"R","e",":"," ">> \o emails[last.email_id].subject
          /\ NewDraft.body = last.response
    /\ (last.ret # "raise" /\ ~DraftPossible) =>
          /\ last.ret = "None"
          /\ drafts = last.pre_drafts

\* A generation on a stored email with a reply template that has braces of
\* its own ended in an exception.
C33_Witness ==
  /\ Drafted /\ last.ret = "raise"
  /\ last.email_id \in DOMAIN emails
  /\ prompts["auto_reply"] = BracesTemplate

\* A second generation for the same email added a second draft and left the
\* first as it was.
C33_WitnessRegenerated ==
  /\ Drafted /\ last.ret = "Draft"
  /\ Len(last.pre_drafts) = 1 /\ Len(drafts) = 2
  /\ drafts[1] = last.pre_drafts[1]
  /\ drafts[1].email_id = drafts[2].email_id

\* C34: after any sequence of template writes every purpose that has been
\* written has exactly one active row in the prompts table and the lookup of
\* that purpose returns the text of the most recent write; a purpose never
\* written has no row and its lookup returns None.
C34_OneActiveTemplateLastWriteWins ==
  \A t \in PromptTypes :
    /\ prompts[t] # None =>
         /\ Cardinality(active_rows(prompt_rows, t)) = 1
         /\ select_prompt(prompt_rows, t) = {prompts[t]}
    /\ prompts[t] = None =>
         /\ {r \in prompt_rows.rows : r.prompt_type = t} = {}
         /\ select_prompt(prompt_rows, t) = {None}
    /\ get_prompt(prompts, t, FALSE).prompt_text \in select_prompt(prompt_rows, t)
    /\ last.op = "insert_prompt" /\ last.calls = <<<<"insert_prompt", t>>>> =>
         select_prompt(prompt_rows, t) = {last.template}

\* One purpose was written three times, the last time with another text than
\* before: the table holds its one row, with the last text.
C34_Witness ==
  /\ last.op = "insert_prompt" /\ prompt_rows.seq = 3
  /\ Cardinality(prompt_rows.rows) = 1
  /\ \E t \in PromptTypes :
       /\ last.calls = <<<<"insert_prompt", t>>>>
       /\ last.pre_prompt # None /\ last.pre_prompt # last.template
       /\ select_prompt(prompt_rows, t) = {last.template}

\* The update_email call just made and the row it names, before and after.
Updated == last.op = "update_email"

\* C35: update_email changes, on the email with the given id only, exactly
\* those of category, task list and processed that were passed (not None; an
\* empty task list is passed); the other columns of that row and every other
\* row stay as they were, no row appears or disappears, and get_email then
\* returns the passed values.
C35_UpdateWritesPassedFieldsOnly ==
  Updated =>
    /\ DOMAIN emails = DOMAIN last.pre_emails
    /\ \A id \in DOMAIN emails : id # last.email_id => emails[id] = last.pre_emails[id]
    /\ last.email_id \in DOMAIN emails =>
         /\ \A f \in {"id", "sender", "subject", "body", "timestamp"} :
              emails[last.email_id][f] = last.pre_emails[last.email_id][f]
         /\ get_email(emails, last.email_id, FALSE).found
         /\ get_email(emails, last.email_id, FALSE).email.category
              = (IF last.category # None THEN last.category
                 ELSE last.pre_emails[last.email_id].category)
         /\ get_email(emails, last.email_id, FALSE).email.action_items
              = (IF last.action_items # NoneList THEN last.action_items
                 ELSE row_to_email(last.pre_emails[last.email_id]).action_items)
         /\ get_email(emails, last.email_id, FALSE).email.processed
              = (IF last.processed # NoneBool THEN last.processed = "True"
                 ELSE last.pre_emails[last.email_id].processed # 0)

\* An update that passed only an empty task list, on a processed email with a
\* category and a task while another email is stored: the tasks are gone, the
\* category and the flag are kept.
C35_Witness ==
  /\ Updated /\ DOMAIN emails = {1, 2}
  /\ last.category = None /\ last.processed = NoneBool /\ last.action_items = JList(<<>>)
  /\ last.pre_emails[last.email_id].processed = 1
  /\ Truthy(last.pre_emails[last.email_id].category)
  /\ row_to_email(last.pre_emails[last.email_id]).action_items.v # <<>>
  /\ row_to_email(emails[last.email_id]).action_items = JList(<<>>)
  /\ emails[last.email_id].processed = 1
  /\ emails[last.email_id].category = last.pre_emails[last.email_id].category

\* The categorization entries a run appended, and the run's categorize call.
CategorizationEntries ==
  SelectSeq(Appended, LAMBDA e : e.operation = "categorization")

\* C37: a process_email run that fetched its email, returned, and met no
\* failing log insert appends exactly one categorization entry, with status
\* success, when the categorization gave a category; exactly one, with
\* status failed, when the categorization template is missing; and exactly
\* two, both failed, when the categorize call was made and gave no category.
C37_CategorizationEntries ==
  (Fetched /\ last.ret # "raise" /\ last.logFail = {}) =>
     /\ LogsKept
     /\ \A i \in DOMAIN CategorizationEntries :
          CategorizationEntries[i].email_id = last.email_id
     /\ Truthy(last.category) =>
          /\ Len(CategorizationEntries) = 1
          /\ CategorizationEntries[1].status = "success"
     /\ (~Truthy(last.category) /\ ~Called("categorize_email", "llm")) =>
          /\ prompts["categorization"] = None
          /\ Len(CategorizationEntries) = 1
          /\ CategorizationEntries[1].status = "failed"
     /\ (~Truthy(last.category) /\ Called("categorize_email", "llm")) =>
          /\ Len(CategorizationEntries) = 2
          /\ CategorizationEntries[1].status = "failed"
          /\ CategorizationEntries[2].status = "failed"

\* A run whose categorize call was rate limited on every attempt appended two
\* failed categorization entries.
C37_Witness ==
  /\ Fetched /\ last.ret = "False" /\ last.logFail = {}
  /\ Called("categorize_email", "llm") /\ ~Truthy(last.category)
  /\ Len(CategorizationEntries) = 2

\* A run without a categorization template appended one failed entry.
C37_WitnessNoTemplate ==
  /\ Fetched /\ last.ret = "False" /\ last.logFail = {}
  /\ prompts["categorization"] = None
  /\ Len(CategorizationEntries) = 1 /\ CategorizationEntries[1].status = "failed"

\* C36: no store transaction is open while a model call is in flight.  In
\* every process_email, handle_query and generate_draft in progress, a
\* connection is held only during the store operation the run is at, and
\* never while the run waits for the backend.
C36_NoTransactionAcrossModelCall ==
  \A p \in DOMAIN runs.proc :
    /\ Running(p).inflight => Running(p).txn = "none"
    /\ Running(p).inflight => (Running(p).phase = "busy" /\ Running(p).pc \in ModelCalls)
    /\ Running(p).txn # "none" =>
         (Running(p).phase = "busy" /\ Running(p).txn = Running(p).pc)

\* One run waits for the backend while the other holds the connection of its
\* update.
C36_Witness ==
  /\ DOMAIN runs.proc = Procs
  /\ \E p, q \in Procs :
       /\ Running(p).inflight /\ Running(p).pc = "extract"
       /\ Running(q).txn = "update_email"

\* The two process_email runs on email 1 side by side.
BothProcess ==
  /\ DOMAIN runs.proc = Procs
  /\ \A p \in Procs : Running(p).kind = "process_email"

LastApplied == runs.applied[Len(runs.applied)]

\* C38: under every interleaving of two process_email runs on the same email
\* at the store operations and model calls, the stored category and task
\* list are, in every state, those of one run: of the run whose update was
\* applied last, and the ingested ones while no update was applied.  The
\* category of one run is never stored with the tasks of the other.
C38_CategoryAndTasksFromOneRun ==
  BothProcess =>
    IF runs.applied = <<>>
    THEN /\ emails[1].category = None
         /\ emails[1].action_items_json = json_dumps(JList(<<>>))
    ELSE /\ emails[1].category = Running(LastApplied).category
         /\ emails[1].action_items_json = json_dumps(Running(LastApplied).action_items)
         /\ emails[1].processed = 1

\* Both runs returned True with different categories and different tasks;
\* the update of run 2 was applied first and that of run 1 last, and the email
\* holds the pair of run 1.
C38_Witness ==
  /\ BothProcess
  /\ \A p \in Procs : Running(p).ret = "True"
  /\ Running(1).category # Running(2).category
  /\ json_dumps(Running(1).action_items) # json_dumps(Running(2).action_items)
  /\ runs.applied = <<2, 1>>
  /\ emails[1].category = Running(1).category
  /\ emails[1].action_items_json = json_dumps(Running(1).action_items)

(***************************************************************************)
(* Termination of the provider client.                                     *)
(***************************************************************************)
\* The kinds of failure after which both clients try again.
RetriedKinds == {"rate", "timeout", "conn"}

\* C39: every provider-client call returns: whatever the backend answers, of
\* whatever mix of kinds, every answer uses up one attempt of the same
\* counter, the call sends at most max_retries requests, a completion ends
\* the call at once with its text, and with max_retries 0 the call returns
\* none without sending a request.
C39_CallTerminates ==
  LLMCalled =>
    /\ last.ret \in {"None", "str"}
    /\ last.client.attempts = Len(last.outcomes)
    /\ last.client.attempts <= SelfMaxRetries
    /\ \A k \in 0..(Len(last.outcomes) - 1) :
         Answered(k, "ok") =>
           /\ k = Len(last.outcomes) - 1
           /\ last.client.result = last.outcomes[k + 1].text
    /\ (\A k \in 0..(Len(last.outcomes) - 1) : last.outcomes[k + 1].kind \in RetriedKinds) =>
         /\ last.client.attempts = SelfMaxRetries
         /\ last.client.result = None
    /\ SelfMaxRetries = 0 => (last.client.attempts = 0 /\ last.client.result = None)

\* A call whose three requests failed in three different ways and which then
\* returned none.
C39_Witness ==
  /\ LLMCalled
  /\ SelfMaxRetries = 3
  /\ Len(last.outcomes) = 3
  /\ Answered(0, "rate")
  /\ Answered(1, "timeout")
  /\ Answered(2, "conn")
  /\ last.client.result = None

\* A call that succeeded on its second request, after a rate limit.
C39_WitnessSecondAttempt ==
  /\ LLMCalled
  /\ SelfMaxRetries = 3
  /\ Len(last.outcomes) = 2
  /\ Answered(0, "rate")
  /\ Answered(1, "ok")
  /\ last.client.result # None

\* A call of a client constructed with no attempts.
C39_WitnessNoAttempts ==
  /\ LLMCalled
  /\ SelfMaxRetries = 0
  /\ last.client.attempts = 0
  /\ last.ret = "None"

(***************************************************************************)
(* Frame of the core operations.                                           *)
(***************************************************************************)
\* The columns of an emails row that ingestion sets.
Ingested(row) ==
  [id |-> row.id, sender |-> row.sender, subject |-> row.subject, body |-> row.body,
   timestamp |-> row.timestamp]

\* C40: no core operation deletes an item or changes an item's id, sender,
\* subject, body or timestamp; handle_query and generate_draft change no item
\* field and append no log entry; handle_query leaves the caller's
\* conversation history as it was passed; process_email on one id (and a
\* batch on its ids) changes no other item.
C40_Frame ==
  [][/\ \A id \in DOMAIN emails :
          /\ id \in DOMAIN emails'
          /\ Ingested(emails'[id]) = Ingested(emails[id])
     /\ DOMAIN emails' = DOMAIN emails
     /\ last'.op \in {"handle_query", "generate_draft"} => (emails' = emails /\ logs' = logs)
     /\ last'.op = "handle_query" => last'.history_after = last'.history
     /\ last'.op = "process_email" =>
          \A id \in DOMAIN emails \ {last'.email_id} : emails'[id] = emails[id]
     /\ last'.op = "batch_process_emails" =>
          \A id \in DOMAIN emails :
            (\A k \in DOMAIN last'.email_ids : last'.email_ids[k] # id) =>
              emails'[id] = emails[id]]_vars

\* process_email(1) returned True and rewrote email 1 while email 2, stored
\* beside it, is as it was.
C40_Witness ==
  /\ last.op = "process_email"
  /\ last.email_id = 1
  /\ last.ret = "True"
  /\ DOMAIN emails = {1, 2}
  /\ emails[1] # last.pre_emails[1]
  /\ Ingested(emails[1]) = Ingested(last.pre_emails[1])
  /\ emails[2] = last.pre_emails[2]

\* handle_query was given six turns of history on a processed inbox.
C40_WitnessQuery ==
  /\ last.op = "handle_query"
  /\ Len(last.history) = 6
  /\ \E id \in DOMAIN emails : emails[id].processed = 1
  /\ emails = last.pre_emails
  /\ logs = last.pre_logs
  /\ logs # <<>>

====
